---- MODULE Spec2Model ----
(***************************************************************************)
(* Model of the media-ingestion path of the network service:               *)
(* MediaService.uploadAndCreateMedia, parseMultipartFile and splitBuffer,  *)
(* and the POST /v1/media/upload route handler.                            *)
(*                                                                         *)
(* Byte buffers and strings are sequences of tokens.  Every token stands   *)
(* for a fixed ASCII byte string (TokenBytes gives its length); the tokens *)
(* that the code searches for ("--", CR LF CR LF, quotes, white space) are *)
(* single bytes, so a search over tokens finds what the search over bytes  *)
(* finds.                                                                  *)
(***************************************************************************)
EXTENDS Integers, Sequences, FiniteSets, TLC

\* ------------------------------------------------------------------ bytes
CR == "\\r"
LF == "\\n"
DASH == "-"
QUOTE == "\""
SP == " "
CRLF == <<CR, LF>>
HeaderEnd == <<CR, LF, CR, LF>>

TokContentDisposition == "Content-Disposition: form-data"
TokName == "name="
TokFilename == "filename="
TokContentType == "Content-Type:"
TokMultipart == "multipart/form-data"
TokBoundary == "boundary="
TokSemi == "; "
\* the two header names as a client may write them in lower case
TokLowerDisposition == "content-disposition: form-data"
TokLowerContentType == "content-type:"

\* Length in bytes of the ASCII string a token stands for.
TokenBytes(t) ==
  CASE t = TokContentDisposition -> 30
    [] t = TokName -> 5
    [] t = TokFilename -> 9
    [] t = TokContentType -> 13
    [] t = TokMultipart -> 19
    [] t = TokBoundary -> 9
    [] t = TokSemi -> 2
    [] t = TokLowerDisposition -> 30
    [] t = TokLowerContentType -> 13
    [] t = "image/png" -> 9
    [] t = "image/jpeg" -> 10
    [] t = "text/plain" -> 10
    [] t = "png" -> 3
    [] t = "jpg" -> 3
    [] t = "file" -> 4
    [] t = "caption" -> 7
    [] OTHER -> 1

RECURSIVE ByteLength(_)
\* Buffer.length / String.length of a token sequence.
ByteLength(s) == IF s = <<>> THEN 0 ELSE TokenBytes(Head(s)) + ByteLength(Tail(s))

\* Buffer.slice(from, to) with 0-based offsets, to exclusive.
Slice(buf, from, to) == SubSeq(buf, from + 1, to)

\* buf has pat at 0-based offset i
MatchAt(buf, pat, i) ==
  /\ i + Len(pat) <= Len(buf)
  /\ \A k \in 1..Len(pat) : buf[i + k] = pat[k]

\* Buffer.indexOf(pat, from): least offset >= from where pat occurs, or -1.
IndexOf(buf, pat, from) ==
  LET hits == {i \in from..(Len(buf) - Len(pat)) : MatchAt(buf, pat, i)}
  IN IF hits = {} THEN -1 ELSE CHOOSE i \in hits : \A j \in hits : i <= j

\* String.includes(tok) for a one-token needle.
Includes(s, tok) == \E i \in 1..Len(s) : s[i] = tok

IsSpace(t) == t \in {SP, CR, LF}
IsNewline(t) == t \in {CR, LF}

RECURSIVE TrimLeft(_)
TrimLeft(s) == IF s # <<>> /\ IsSpace(Head(s)) THEN TrimLeft(Tail(s)) ELSE s

RECURSIVE TrimRight(_)
TrimRight(s) ==
  IF s # <<>> /\ IsSpace(s[Len(s)]) THEN TrimRight(SubSeq(s, 1, Len(s) - 1)) ELSE s

\* String.prototype.trim
Trim(s) == TrimRight(TrimLeft(s))

\* ------------------------------------------------------------ splitBuffer
RECURSIVE SplitLoop(_, _, _, _, _)
\* the while loop of splitBuffer: one unfolding per iteration
SplitLoop(buffer, delimiter, start, index, parts) ==
  IF ~(index < Len(buffer)) THEN parts
  ELSE LET found == IndexOf(buffer, delimiter, start) IN
       IF found = -1
       THEN IF start < Len(buffer)
            THEN Append(parts, Slice(buffer, start, Len(buffer)))
            ELSE parts
       ELSE SplitLoop(buffer, delimiter, found + Len(delimiter), found,
                      IF found > start
                      THEN Append(parts, Slice(buffer, start, found))
                      ELSE parts)

splitBuffer(buffer, delimiter) == SplitLoop(buffer, delimiter, 0, 0, <<>>)

\* ------------------------------------------------------ parseMultipartFile
\* contentType.includes('multipart/form-data') on a present header
IsMultipart(contentType) ==
  contentType.present /\ contentType.value # <<>> /\ Includes(contentType.value, TokMultipart)

\* contentType.match(/boundary=(.+)$/): offsets of "boundary=" followed by
\* at least one character up to the end of the header value
BoundaryHits(value) == {i \in 1..(Len(value) - 1) : value[i] = TokBoundary}

HasBoundary(value) == BoundaryHits(value) # {}

\* boundaryMatch[1]: the text after the leftmost match, verbatim
BoundaryOf(value) ==
  LET i == CHOOSE i \in BoundaryHits(value) : \A j \in BoundaryHits(value) : i <= j
  IN SubSeq(value, i + 1, Len(value))

\* Buffer.from(`--${boundary}`)
Delimiter(boundary) == <<DASH, DASH>> \o boundary

\* headerSection.match(/filename="([^"]+)"/): offsets i of filename=" that
\* are followed by one or more non-quote characters and a closing quote
FilenameHits(h) ==
  {i \in 1..(Len(h) - 3) :
     /\ h[i] = TokFilename
     /\ h[i + 1] = QUOTE
     /\ h[i + 2] # QUOTE
     /\ \E j \in (i + 3)..Len(h) : h[j] = QUOTE}

\* filenameMatch ? filenameMatch[1] : 'unknown'
FilenameOf(h) ==
  IF FilenameHits(h) = {} THEN <<"unknown">>
  ELSE LET i == CHOOSE i \in FilenameHits(h) : \A k \in FilenameHits(h) : i <= k
           j == CHOOSE j \in (i + 3)..Len(h) :
                  /\ h[j] = QUOTE
                  /\ \A k \in (i + 3)..(j - 1) : h[k] # QUOTE
       IN SubSeq(h, i + 2, j - 1)

RECURSIVE SpaceRun(_, _)
\* number of consecutive white-space characters of h from index i on
SpaceRun(h, i) == IF i <= Len(h) /\ IsSpace(h[i]) THEN 1 + SpaceRun(h, i + 1) ELSE 0

RECURSIVE LineRun(_, _)
\* number of consecutive characters other than CR and LF from index i on
LineRun(h, i) == IF i <= Len(h) /\ ~IsNewline(h[i]) THEN 1 + LineRun(h, i + 1) ELSE 0

\* headerSection.match(/Content-Type:\s*([^\r\n]+)/): for "Content-Type:" at
\* index i, the start of the captured group: \s* is greedy and gives back
\* characters until one character other than CR and LF follows it
MimeStarts(h, i) ==
  {g \in (i + 1)..(i + 1 + SpaceRun(h, i + 1)) : g <= Len(h) /\ ~IsNewline(h[g])}

MimeHits(h) == {i \in 1..Len(h) : h[i] = TokContentType /\ MimeStarts(h, i) # {}}

\* contentTypeMatch ? contentTypeMatch[1].trim() : 'application/octet-stream'
MimeTypeOf(h) ==
  IF MimeHits(h) = {} THEN <<"application/octet-stream">>
  ELSE LET i == CHOOSE i \in MimeHits(h) : \A k \in MimeHits(h) : i <= k
           g == CHOOSE g \in MimeStarts(h, i) : \A k \in MimeStarts(h, i) : k <= g
       IN Trim(SubSeq(h, g, g + LineRun(h, g) - 1))

\* IsFilePart without the test for filename=
IsFilePart_AnyDisposition(headerSection) ==
  Includes(headerSection, TokContentDisposition)

\* the test that makes a part "the file"
IsFilePart(headerSection) ==
  Includes(headerSection, TokContentDisposition) /\ Includes(headerSection, TokFilename)

NoFile == [kind |-> "null", filename |-> <<>>, mimeType |-> <<>>, content |-> <<>>]
ParseError(msg) == [kind |-> msg, filename |-> <<>>, mimeType |-> <<>>, content |-> <<>>]

RECURSIVE SelectFile_Last(_, _)
\* SelectFile with the loop running to the end: the last file part wins
SelectFile_Last(parts, k) ==
  IF k > Len(parts) THEN NoFile
  ELSE LET part == parts[k]
           headerEndIndex == IndexOf(part, HeaderEnd, 0)
           later == SelectFile_Last(parts, k + 1)
       IN IF later.kind = "file" THEN later
          ELSE IF Len(part) = 0 \/ headerEndIndex = -1 THEN NoFile
          ELSE LET headerSection == Slice(part, 0, headerEndIndex)
                   contentSection == Slice(part, headerEndIndex + 4, Len(part))
               IN IF IsFilePart(headerSection)
                  THEN [kind |-> "file",
                        filename |-> FilenameOf(headerSection),
                        mimeType |-> MimeTypeOf(headerSection),
                        content |-> contentSection]
                  ELSE NoFile

RECURSIVE SelectFile_WholePartHeader(_, _)
\* SelectFile with a part that has no separator read as all header, no body
SelectFile_WholePartHeader(parts, k) ==
  IF k > Len(parts) THEN NoFile
  ELSE LET part == parts[k]
           found == IndexOf(part, HeaderEnd, 0)
           headerEndIndex == IF found = -1 THEN Len(part) ELSE found
       IN IF Len(part) = 0 THEN SelectFile_WholePartHeader(parts, k + 1)
          ELSE LET headerSection == Slice(part, 0, headerEndIndex)
                   contentSection == Slice(part, headerEndIndex + 4, Len(part))
               IN IF IsFilePart(headerSection)
                  THEN [kind |-> "file",
                        filename |-> FilenameOf(headerSection),
                        mimeType |-> MimeTypeOf(headerSection),
                        content |-> contentSection]
                  ELSE SelectFile_WholePartHeader(parts, k + 1)

RECURSIVE SelectFile(_, _)
\* the for loop over parts: the first part that has a header/body separator
\* and passes IsFilePart is returned
SelectFile(parts, k) ==
  IF k > Len(parts) THEN NoFile
  ELSE LET part == parts[k]
           headerEndIndex == IndexOf(part, HeaderEnd, 0)
       IN IF Len(part) = 0 \/ headerEndIndex = -1 THEN SelectFile(parts, k + 1)
          ELSE LET headerSection == Slice(part, 0, headerEndIndex)
                   contentSection == Slice(part, headerEndIndex + 4, Len(part))
               IN IF IsFilePart(headerSection)
                  THEN [kind |-> "file",
                        filename |-> FilenameOf(headerSection),
                        mimeType |-> MimeTypeOf(headerSection),
                        content |-> contentSection]
                  ELSE SelectFile(parts, k + 1)

ErrContentType == "Content-Type must be multipart/form-data"
ErrNoBoundary == "No boundary found in multipart data"
ErrNoFile == "No file uploaded"
ErrTooLarge == "File too large"

\* parseMultipartFile without the test for multipart/form-data
parseMultipartFile_NoTypeCheck(contentType, rawBody) ==
  IF ~contentType.present \/ ~HasBoundary(contentType.value) THEN ParseError(ErrNoBoundary)
  ELSE IF ~rawBody.present \/ Len(rawBody.value) = 0 THEN NoFile
  ELSE SelectFile(splitBuffer(rawBody.value, Delimiter(BoundaryOf(contentType.value))), 1)

parseMultipartFile(contentType, rawBody) ==
  IF ~IsMultipart(contentType) THEN ParseError(ErrContentType)
  ELSE IF ~HasBoundary(contentType.value) THEN ParseError(ErrNoBoundary)
  ELSE IF ~rawBody.present \/ Len(rawBody.value) = 0 THEN NoFile
  ELSE SelectFile(splitBuffer(rawBody.value, Delimiter(BoundaryOf(contentType.value))), 1)

\* ------------------------------------------------------------- the client
\* What a client puts in one part of a multipart body.
\*   disp:  "file" (name and filename), "emptyfn" (filename=""), "field"
\*          (name only), "none" (no Content-Disposition header),
\*          "lowerfile" ("file" with both header names in lower case),
\*          "lowertype" ("file" with only Content-Type in lower case)
\*   sep:   whether the blank line between headers and body is sent
Part(disp, fname, ctype, sep, body) ==
  [disp |-> disp, fname |-> fname, ctype |-> ctype, sep |-> sep, body |-> body]

DispositionLine(p) ==
  CASE p.disp = "file" ->
         <<TokContentDisposition, TokSemi, TokName, QUOTE, "file", QUOTE,
           TokSemi, TokFilename, QUOTE>> \o p.fname \o <<QUOTE>>
    [] p.disp = "lowertype" ->
         <<TokContentDisposition, TokSemi, TokName, QUOTE, "file", QUOTE,
           TokSemi, TokFilename, QUOTE>> \o p.fname \o <<QUOTE>>
    [] p.disp = "lowerfile" ->
         <<TokLowerDisposition, TokSemi, TokName, QUOTE, "file", QUOTE,
           TokSemi, TokFilename, QUOTE>> \o p.fname \o <<QUOTE>>
    [] p.disp = "emptyfn" ->
         <<TokContentDisposition, TokSemi, TokName, QUOTE, "file", QUOTE,
           TokSemi, TokFilename, QUOTE, QUOTE>>
    [] p.disp = "field" ->
         <<TokContentDisposition, TokSemi, TokName, QUOTE, "caption", QUOTE>>
    [] OTHER -> <<>>

ContentTypeLine(p) ==
  IF p.ctype = <<>> THEN <<>>
  ELSE IF p.disp \in {"lowerfile", "lowertype"} THEN <<TokLowerContentType, SP>> \o p.ctype
  ELSE <<TokContentType, SP>> \o p.ctype

HeaderLines(p) ==
  IF DispositionLine(p) # <<>> /\ ContentTypeLine(p) # <<>>
  THEN DispositionLine(p) \o CRLF \o ContentTypeLine(p)
  ELSE DispositionLine(p) \o ContentTypeLine(p)

\* the bytes of one part between two delimiters
EncodePart(p) ==
  CRLF \o HeaderLines(p) \o (IF p.sep THEN HeaderEnd ELSE <<>>) \o p.body \o CRLF

RECURSIVE EncodeParts(_, _)
EncodeParts(delimiter, ps) ==
  IF ps = <<>> THEN <<>>
  ELSE delimiter \o EncodePart(Head(ps)) \o EncodeParts(delimiter, Tail(ps))

\* a multipart/form-data body: every part after a delimiter line, then the
\* closing delimiter
EncodeBody(boundary, ps) ==
  EncodeParts(Delimiter(boundary), ps) \o Delimiter(boundary) \o <<DASH, DASH>> \o CRLF

\* ------------------------------------------------------------ the service
\* MAX_FILE_SIZE, scaled down from the default 10485760 to keep files small
maxFileSize == 3
\* BASE_URL
baseUrl == "http://localhost:4005"

\* number of upload requests in flight in the concurrent specification
NumRequests == 2
\* Date.now() takes the values 0..MaxTime
MaxTime == 1
\* number of values of Math.random().toString(36).substr(2, 9)
NumSuffixes == 2
\* largest number of parts in a body the client sends
MaxParts == 2

Requests == 1..NumRequests
Users == {"u1", "u2"}
\* the authenticated user of request r in the concurrent specification
UserOf(r) == IF r % 2 = 1 THEN "u1" ELSE "u2"

RECURSIVE LastDot(_, _)
\* String.lastIndexOf('.') as a 1-based index, 0 when there is none
LastDot(name, i) == IF i = 0 THEN 0 ELSE IF name[i] = "." THEN i ELSE LastDot(name, i - 1)

\* path.extname: from the last '.' of the name to its end; empty when there
\* is no '.' or the only '.' is the first character
ExtName(name) ==
  LET d == LastDot(name, Len(name))
  IN IF d <= 1 THEN <<>> ELSE SubSeq(name, d, Len(name))

\* `${timestamp}-${random}${extension}`
FileName(timestamp, random, extension) ==
  [ts |-> timestamp, rnd |-> random, ext |-> extension]

NoKey == FileName(-1, 0, <<>>)
Absent == [present |-> FALSE, value |-> <<>>]
Present(v) == [present |-> TRUE, value |-> v]

ErrWrite == "EIO: write failed"
ErrCreate == "prisma: create failed"

\* the steps of the pipeline in the order the code runs them
Pipeline ==
  <<"SEARCH_BOUNDARY", "SPLIT_PARTS", "PARSE_HEADERS", "SELECT_FILE", "VALIDATE_SIZE",
    "WRITE_STORAGE", "PERSIST_RECORD", "DONE">>

\* the steps parseMultipartFile runs: the header tests, and for a body that
\* is not empty splitBuffer and the loop over the parts
ParseStages(contentType, rawBody) ==
  IF ~IsMultipart(contentType) \/ ~HasBoundary(contentType.value)
  THEN <<"SEARCH_BOUNDARY", "FAILED">>
  ELSE IF ~rawBody.present \/ Len(rawBody.value) = 0 THEN <<"SEARCH_BOUNDARY">>
  ELSE <<"SEARCH_BOUNDARY", "SPLIT_PARTS", "PARSE_HEADERS", "SELECT_FILE">>

\* req:        per request, its position in the handler and its locals
\* files:      the upload directory, file name -> bytes
\* media:      the Media table in insertion order; a row's id is its index
\* now:        Date.now()
\* split:      the locals of a call of splitBuffer and its position in the loop
\* posts:      the Post table in insertion order; a row's id is its index
\* postMedia:  the PostMedia join table
\* postLike:   the PostLike table
\* userFollow: the UserFollow table
\* postComment: the PostComment table in insertion order; a row's id is its
\*            index, and a deleted row keeps its place with deleted set
\* call:       per caller of PostService, the call in flight and its locals
VARIABLES req, files, media, now, split, posts, postMedia, postLike, userFollow,
          postComment, call

vars ==
  <<req, files, media, now, split, posts, postMedia, postLike, userFollow, postComment, call>>

\* the state of the upload handlers
uploads == <<req, files, media, now>>
\* the tables and calls of PostService
social == <<posts, postMedia, postLike, userFollow, postComment, call>>

IdleRequest ==
  [pc |-> "idle", user |-> "", contentType |-> Absent, rawBody |-> Absent,
   sent |-> <<>>, fileData |-> NoFile, filename |-> NoKey, error |-> "",
   mediaId |-> 0, status |-> 0, op |-> "", stages |-> <<>>]

\* no call of splitBuffer in progress
IdleSplit ==
  [pc |-> "idle", buffer |-> <<>>, delimiter |-> <<>>, start |-> 0, index |-> 0,
   parts |-> <<>>]

\* number of callers of PostService
NumCallers == 2
Callers == 1..NumCallers

\* chain, the history of a caller's likePost calls: n calls in a row by one
\* user for one post have returned since the tables were as in base, and
\* while live no other caller has been in a call since then
NoChain == [n |-> 0, live |-> FALSE, base |-> <<>>]

\* no call of PostService in progress
IdleCall ==
  [op |-> "", pc |-> "idle", user |-> "", data |-> <<>>, postId |-> 0,
   authorCollegeId |-> "", where |-> <<>>, existingMedia |-> <<>>,
   liked |-> FALSE, likeCount |-> 0, result |-> <<>>, error |-> "",
   chain |-> NoChain]

\* empty tables, nothing in flight
InitSocial ==
  /\ posts = << >>
  /\ postMedia = {}
  /\ postLike = {}
  /\ postComment = << >>
  /\ userFollow = {}
  /\ call = [c \in Callers |-> IdleCall]

InitUploads ==
  /\ req = [r \in Requests |-> IdleRequest]
  /\ files = << >>
  /\ media = << >>
  /\ now = 0

Init ==
  /\ InitUploads
  /\ split = IdleSplit
  /\ InitSocial

\* Date.now() advances
Tick ==
  /\ now < MaxTime
  /\ now' = now + 1
  /\ UNCHANGED <<req, files, media>>

\* Upload with the body spooled to the upload directory before it is parsed
Upload_SpoolsBody(r, user, contentType, rawBody, sent) ==
  /\ req[r].pc = "idle"
  /\ LET fileData == parseMultipartFile(contentType, rawBody) IN
     req' = [req EXCEPT ![r] =
               [@ EXCEPT !.user = user, !.contentType = contentType,
                         !.rawBody = rawBody, !.sent = sent,
                         !.op = "uploadAndCreateMedia",
                         !.stages = ParseStages(contentType, rawBody),
                         !.pc = IF fileData.kind \in {"file", "null"}
                                THEN "parsed" ELSE "failed",
                         !.error = IF fileData.kind \in {"file", "null"}
                                   THEN "" ELSE fileData.kind,
                         !.fileData = IF fileData.kind = "file"
                                      THEN fileData ELSE NoFile]]
  /\ files' = [k \in DOMAIN files \cup {FileName(now, 0, <<>>)} |->
                 IF k = FileName(now, 0, <<>>) THEN rawBody.value ELSE files[k]]
  /\ UNCHANGED <<media, now>>

\* Upload with the parsed file kept in a field of the shared service: a
\* request that arrives while another one holds a file gets that file
Upload_SharedResult(r, user, contentType, rawBody, sent) ==
  /\ req[r].pc = "idle"
  /\ LET holders == {q \in Requests : req[q].pc \in {"parsed", "written"}
                                       /\ req[q].fileData.kind = "file"}
         own == parseMultipartFile(contentType, rawBody)
         fileData == IF holders # {} /\ own.kind = "file"
                     THEN req[CHOOSE q \in holders : TRUE].fileData ELSE own
     IN
     req' = [req EXCEPT ![r] =
               [@ EXCEPT !.user = user, !.contentType = contentType,
                         !.rawBody = rawBody, !.sent = sent,
                         !.op = "uploadAndCreateMedia",
                         !.stages = ParseStages(contentType, rawBody),
                         !.pc = IF fileData.kind \in {"file", "null"}
                                THEN "parsed" ELSE "failed",
                         !.error = IF fileData.kind \in {"file", "null"}
                                   THEN "" ELSE fileData.kind,
                         !.fileData = IF fileData.kind = "file"
                                      THEN fileData ELSE NoFile]]
  /\ UNCHANGED <<files, media, now>>

\* POST /v1/media/upload arrives from an authenticated user; the handler
\* calls uploadAndCreateMedia, which runs parseMultipartFile to its end
\* before the first await gives up control.
Upload(r, user, contentType, rawBody, sent) ==
  /\ req[r].pc = "idle"
  /\ LET fileData == parseMultipartFile(contentType, rawBody) IN
     req' = [req EXCEPT ![r] =
               [@ EXCEPT !.user = user, !.contentType = contentType,
                         !.rawBody = rawBody, !.sent = sent,
                         !.op = "uploadAndCreateMedia",
                         !.stages = ParseStages(contentType, rawBody),
                         !.pc = IF fileData.kind \in {"file", "null"}
                                THEN "parsed" ELSE "failed",
                         !.error = IF fileData.kind \in {"file", "null"}
                                   THEN "" ELSE fileData.kind,
                         !.fileData = IF fileData.kind = "file"
                                      THEN fileData ELSE NoFile]]
  /\ UNCHANGED <<files, media, now>>

\* WriteFile with the error of a failed write swallowed
WriteFile_Swallow(r, filename, content, n) ==
  /\ files' = IF n = -1 THEN files
              ELSE [k \in DOMAIN files \cup {filename} |->
                      IF k = filename THEN SubSeq(content, 1, n) ELSE files[k]]
  /\ req' = [req EXCEPT ![r] =
               [@ EXCEPT !.pc = "written", !.filename = filename,
                         !.stages = @ \o <<"VALIDATE_SIZE", "WRITE_STORAGE">>]]

\* writeFileSync(filepath, content): n = Len(content) is the write in full;
\* otherwise an error is thrown, with nothing done (n = -1) or with the
\* file left truncated to its first n bytes
WriteFile(r, filename, content, n) ==
  /\ files' = IF n = -1 THEN files
              ELSE [k \in DOMAIN files \cup {filename} |->
                      IF k = filename THEN SubSeq(content, 1, n) ELSE files[k]]
  /\ req' = [req EXCEPT ![r] =
               IF n = Len(content)
               THEN [@ EXCEPT !.pc = "written", !.filename = filename,
                              !.stages = @ \o <<"VALIDATE_SIZE", "WRITE_STORAGE">>]
               ELSE [@ EXCEPT !.pc = "failed", !.error = ErrWrite,
                              !.filename = filename,
                              !.stages = @ \o <<"VALIDATE_SIZE", "WRITE_STORAGE", "FAILED">>]]

\* ValidateAndWrite with the size check moved after the write
ValidateAndWrite_SizeAfterWrite(r, random, n) ==
  /\ req[r].pc = "parsed"
  /\ LET fileData == req[r].fileData
         filename == FileName(now, random, ExtName(fileData.filename)) IN
     IF fileData.kind # "file"
     THEN /\ req' = [req EXCEPT ![r] = [@ EXCEPT !.pc = "failed", !.error = ErrNoFile,
                                                  !.stages = @ \o <<"FAILED">>]]
          /\ files' = files
     ELSE IF ByteLength(fileData.content) > maxFileSize
     THEN /\ n = -1
          /\ files' = [k \in DOMAIN files \cup {filename} |->
                         IF k = filename THEN fileData.content ELSE files[k]]
          /\ req' = [req EXCEPT ![r] = [@ EXCEPT !.pc = "failed", !.error = ErrTooLarge,
                                                  !.stages = @ \o <<"WRITE_STORAGE", "VALIDATE_SIZE", "FAILED">>]]
     ELSE /\ n \in -1..Len(fileData.content)
          /\ WriteFile(r, filename, fileData.content, n)
  /\ UNCHANGED <<media, now>>

\* the field allowedMimeTypes with its default; no statement reads it
allowedMimeTypes == {<<"image/jpeg">>, <<"image/png">>, <<"image/webp">>, <<"video/mp4">>}

\* ValidateAndWrite with the MIME type tested against allowedMimeTypes
ValidateAndWrite_AllowList(r, random, n) ==
  /\ req[r].pc = "parsed"
  /\ LET fileData == req[r].fileData IN
     IF fileData.kind # "file"
     THEN /\ req' = [req EXCEPT ![r] = [@ EXCEPT !.pc = "failed", !.error = ErrNoFile,
                                                  !.stages = @ \o <<"FAILED">>]]
          /\ files' = files
     ELSE IF fileData.mimeType \notin allowedMimeTypes
     THEN /\ req' = [req EXCEPT ![r] = [@ EXCEPT !.pc = "failed", !.error = "File type not allowed",
                                                  !.stages = @ \o <<"FAILED">>]]
          /\ files' = files
     ELSE IF ByteLength(fileData.content) > maxFileSize
     THEN /\ req' = [req EXCEPT ![r] = [@ EXCEPT !.pc = "failed", !.error = ErrTooLarge,
                                                  !.stages = @ \o <<"VALIDATE_SIZE", "FAILED">>]]
          /\ files' = files
     ELSE /\ n \in -1..Len(fileData.content)
          /\ WriteFile(r, FileName(now, random, ExtName(fileData.filename)),
                       fileData.content, n)
  /\ UNCHANGED <<media, now>>

\* uploadAndCreateMedia from the return of parseMultipartFile to the await
\* of getImageDimensions: the null check, the size check, the file name and
\* the write, without interruption.
ValidateAndWrite(r, random, n) ==
  /\ req[r].pc = "parsed"
  /\ LET fileData == req[r].fileData IN
     IF fileData.kind # "file"
     THEN /\ req' = [req EXCEPT ![r] = [@ EXCEPT !.pc = "failed", !.error = ErrNoFile,
                                                  !.stages = @ \o <<"FAILED">>]]
          /\ files' = files
     ELSE IF ByteLength(fileData.content) > maxFileSize
     THEN /\ req' = [req EXCEPT ![r] = [@ EXCEPT !.pc = "failed", !.error = ErrTooLarge,
                                                  !.stages = @ \o <<"VALIDATE_SIZE", "FAILED">>]]
          /\ files' = files
     ELSE /\ n \in -1..Len(fileData.content)
          /\ WriteFile(r, FileName(now, random, ExtName(fileData.filename)),
                       fileData.content, n)
  /\ UNCHANGED <<media, now>>

\* MediaRow with the url built from a file name generated anew
MediaRow_NewName(r) ==
  [url |-> <<baseUrl, "/uploads/", FileName(req[r].filename.ts, 0, req[r].filename.ext)>>,
   mimeType |-> req[r].fileData.mimeType,
   sizeBytes |-> ByteLength(req[r].fileData.content),
   storageKey |-> req[r].filename,
   ownerUserId |-> IF req[r].op = "uploadFile" /\ req[r].user = ""
                   THEN "anonymous" ELSE req[r].user]

\* the row uploadAndCreateMedia passes to prisma.media.create;
\* getImageDimensions returns null for every file
MediaRow(r) ==
  [url |-> <<baseUrl, "/uploads/", req[r].filename>>,
   mimeType |-> req[r].fileData.mimeType,
   sizeBytes |-> ByteLength(req[r].fileData.content),
   storageKey |-> req[r].filename,
   ownerUserId |-> IF req[r].op = "uploadFile" /\ req[r].user = ""
                   THEN "anonymous" ELSE req[r].user]

\* CreateMedia with a failed insert sent back to the size check and write
CreateMedia_Retry(r, ok) ==
  /\ req[r].pc = "written"
  /\ IF ok
     THEN /\ media' = Append(media, MediaRow(r))
          /\ req' = [req EXCEPT ![r] = [@ EXCEPT !.pc = "created",
                                                  !.mediaId = Len(media) + 1,
                                                  !.stages = @ \o <<"PERSIST_RECORD">>]]
     ELSE /\ media' = media
          /\ req' = [req EXCEPT ![r] = [@ EXCEPT !.pc = "parsed",
                                                  !.stages = @ \o <<"PERSIST_RECORD">>]]
  /\ UNCHANGED <<files, now>>

\* CreateMedia with the written file unlinked when the insert is rejected
CreateMedia_Unlink(r, ok) ==
  /\ req[r].pc = "written"
  /\ IF ok
     THEN /\ media' = Append(media, MediaRow(r))
          /\ files' = files
          /\ req' = [req EXCEPT ![r] = [@ EXCEPT !.pc = "created",
                                                  !.mediaId = Len(media) + 1,
                                                  !.stages = @ \o <<"PERSIST_RECORD">>]]
     ELSE /\ media' = media
          /\ files' = [k \in DOMAIN files \ {req[r].filename} |-> files[k]]
          /\ req' = [req EXCEPT ![r] = [@ EXCEPT !.pc = "failed", !.error = ErrCreate,
                                                  !.stages = @ \o <<"PERSIST_RECORD", "FAILED">>]]
  /\ now' = now

\* prisma.media.create resolves (ok) or rejects
CreateMedia(r, ok) ==
  /\ req[r].pc = "written"
  /\ IF ok
     THEN /\ media' = Append(media, MediaRow(r))
          /\ req' = [req EXCEPT ![r] = [@ EXCEPT !.pc = "created",
                                                  !.mediaId = Len(media) + 1,
                                                  !.stages = @ \o <<"PERSIST_RECORD">>]]
     ELSE /\ media' = media
          /\ req' = [req EXCEPT ![r] = [@ EXCEPT !.pc = "failed", !.error = ErrCreate,
                                                  !.stages = @ \o <<"PERSIST_RECORD", "FAILED">>]]
  /\ UNCHANGED <<files, now>>

\* the route handler's reply: 201 with the row, or the catch block with the
\* error's message; the handler's locals are gone when it returns
Reply(r) ==
  /\ req[r].pc \in {"created", "failed"}
  /\ req[r].op = "uploadAndCreateMedia"
  /\ req' = [req EXCEPT ![r] = [IdleRequest EXCEPT !.pc = "done",
                                                    !.op = req[r].op,
                                                    !.error = req[r].error,
                                                    !.mediaId = req[r].mediaId,
                                                    !.stages = IF req[r].pc = "created"
                                                               THEN req[r].stages \o <<"DONE">>
                                                               ELSE req[r].stages,
                                                    !.status = IF req[r].pc = "created"
                                                               THEN 201 ELSE 400]]
  /\ UNCHANGED <<files, media, now>>

\* uploadFile(request) is called; request.user is the caller's token or is
\* not set (user = ""). Like uploadAndCreateMedia it runs parseMultipartFile
\* to its end before the first await.
UploadFile(r, user, contentType, rawBody, sent) ==
  /\ req[r].pc = "idle"
  /\ LET fileData == parseMultipartFile(contentType, rawBody) IN
     req' = [req EXCEPT ![r] =
               [@ EXCEPT !.user = user, !.contentType = contentType,
                         !.rawBody = rawBody, !.sent = sent,
                         !.op = "uploadFile",
                         !.stages = ParseStages(contentType, rawBody),
                         !.pc = IF fileData.kind \in {"file", "null"}
                                THEN "parsed" ELSE "failed",
                         !.error = IF fileData.kind \in {"file", "null"}
                                   THEN "" ELSE fileData.kind,
                         !.fileData = IF fileData.kind = "file"
                                      THEN fileData ELSE NoFile]]
  /\ UNCHANGED <<files, media, now>>

\* uploadFile returns the row's id, url and type, or throws
UploadFileReturn(r) ==
  /\ req[r].pc \in {"created", "failed"}
  /\ req[r].op = "uploadFile"
  /\ req' = [req EXCEPT ![r] = [IdleRequest EXCEPT !.pc = "done",
                                                    !.op = req[r].op,
                                                    !.error = req[r].error,
                                                    !.mediaId = req[r].mediaId,
                                                    !.stages = IF req[r].pc = "created"
                                                               THEN req[r].stages \o <<"DONE">>
                                                               ELSE req[r].stages]]
  /\ UNCHANGED <<files, media, now>>

\* ----------------------------------------------------------- the requests
RECURSIVE Run(_, _)
\* n bytes of value b
Run(b, n) == IF n = 0 THEN <<>> ELSE <<b>> \o Run(b, n - 1)

Boundary == <<"X">>
Png == <<"image/png">>
Jpeg == <<"image/jpeg">>
PngName == <<"a", ".", "png">>
JpgName == <<"b", ".", "jpg">>

\* file bodies around the size limit, with two byte values
FileBodies ==
  {<<>>, <<"a">>, <<"b">>, <<"a", "b">>, Run("a", maxFileSize), Run("a", maxFileSize + 1)}

PngFile(body) == Part("file", PngName, Png, TRUE, body)
JpgFile == Part("file", JpgName, Jpeg, TRUE, <<"b">>)
BareFile == Part("file", <<"c">>, <<>>, TRUE, <<"a">>)
CaptionField == Part("field", <<>>, <<>>, TRUE, <<"a">>)
EmptyNameFile == Part("emptyfn", <<>>, Png, TRUE, <<"a">>)
NoSeparatorFile == Part("file", PngName, Png, FALSE, <<"a">>)
NoHeaderPart == Part("none", <<>>, <<>>, TRUE, <<"a">>)
DelimiterInFile == Part("file", PngName, Png, TRUE, <<"a">> \o Delimiter(Boundary))

PartCatalog ==
  {PngFile(b) : b \in FileBodies} \cup
  {JpgFile, BareFile, CaptionField, EmptyNameFile, NoSeparatorFile, NoHeaderPart,
   DelimiterInFile}

PartSeqs(n) == UNION {[1..k -> PartCatalog] : k \in 0..n}

MultipartHeader == Present(<<TokMultipart, TokSemi, TokBoundary>> \o Boundary)

\* request Content-Type headers: well formed, missing, empty, another media
\* type (with and without a boundary), multipart without a boundary value
HeaderCatalog ==
  {MultipartHeader, Absent, Present(<<>>), Present(<<"text/plain">>),
   Present(<<"text/plain", TokSemi, TokBoundary>> \o Boundary),
   Present(<<TokMultipart>>), Present(<<TokMultipart, TokSemi, TokBoundary>>)}

Input(h, b, ps) == [contentType |-> h, rawBody |-> b, sent |-> ps]

\* every header with every encoded body, and with no body or an empty one
AllInputs ==
  {Input(h, Present(EncodeBody(Boundary, ps)), ps) :
     h \in HeaderCatalog, ps \in PartSeqs(MaxParts)} \cup
  {Input(h, b, <<>>) : h \in HeaderCatalog, b \in {Absent, Present(<<>>)}}

\* the requests of the concurrent specification
FewInputs ==
  {Input(MultipartHeader, Present(EncodeBody(Boundary, <<p>>)), <<p>>) :
     p \in {PngFile(<<"a">>), PngFile(<<"b">>), PngFile(Run("a", maxFileSize + 1)),
            CaptionField}}
  \cup {Input(Present(<<"text/plain">>), Present(EncodeBody(Boundary, <<JpgFile>>)),
              <<JpgFile>>)}

UploadFrom(r, users, inputs) ==
  \E user \in users, i \in inputs : Upload(r, user, i.contentType, i.rawBody, i.sent)

Write(r) ==
  \E random \in 1..NumSuffixes, n \in -1..maxFileSize : ValidateAndWrite(r, random, n)

Create(r) == \E ok \in BOOLEAN : CreateMedia(r, ok)

\* concurrent uploads on the shared MediaService instance
Next ==
  \/ Tick /\ UNCHANGED <<split, social>>
  \/ (\E r \in Requests : UploadFrom(r, {UserOf(r)}, FewInputs)) /\ UNCHANGED <<split, social>>
  \/ (\E r \in Requests : Write(r)) /\ UNCHANGED <<split, social>>
  \/ (\E r \in Requests : Create(r)) /\ UNCHANGED <<split, social>>
  \/ (\E r \in Requests : Reply(r)) /\ UNCHANGED <<split, social>>

Spec == Init /\ [][Next]_vars

\* one upload at a time, over every request of the catalog
NextDecode ==
  \/ Tick /\ UNCHANGED <<split, social>>
  \/ UploadFrom(1, Users, AllInputs) /\ UNCHANGED <<split, social>>
  \/ Write(1) /\ UNCHANGED <<split, social>>
  \/ Create(1) /\ UNCHANGED <<split, social>>
  \/ Reply(1) /\ UNCHANGED <<split, social>>

SpecDecode == Init /\ [][NextDecode]_vars

UploadFileFrom(r, users, inputs) ==
  \E user \in users, i \in inputs : UploadFile(r, user, i.contentType, i.rawBody, i.sent)

\* calls of uploadFile, with and without request.user, and uploads through
\* the route side by side
NextFile ==
  \/ Tick /\ UNCHANGED <<split, social>>
  \/ UploadFileFrom(1, Users \cup {""}, FewInputs) /\ UNCHANGED <<split, social>>
  \/ UploadFrom(2, Users, FewInputs) /\ UNCHANGED <<split, social>>
  \/ (\E r \in {1, 2} : Write(r)) /\ UNCHANGED <<split, social>>
  \/ (\E r \in {1, 2} : Create(r)) /\ UNCHANGED <<split, social>>
  \/ Reply(2) /\ UNCHANGED <<split, social>>
  \/ UploadFileReturn(1) /\ UNCHANGED <<split, social>>

SpecFile == Init /\ [][NextFile]_vars

\* ------------------------------------------------- the loop of splitBuffer
\* largest body handed to splitBuffer on its own
MaxBufLen == 8
\* the bytes of those bodies
SplitBytes == {DASH, "X", "a"}
\* boundaries: one that shares no byte with "--" and one that makes the
\* delimiter overlap itself
SplitBoundaries == {<<"X">>, <<DASH>>}

Buffers(n) == UNION {[1..k -> SplitBytes] : k \in 0..n}

\* const parts = []; let start = 0; let index = 0
SplitCall(buffer, delimiter) ==
  [pc |-> "loop", buffer |-> buffer, delimiter |-> delimiter, start |-> 0,
   index |-> 0, parts |-> <<>>]

InitSplit ==
  /\ InitUploads
  /\ InitSocial
  /\ \E buffer \in Buffers(MaxBufLen), boundary \in SplitBoundaries :
       split = SplitCall(buffer, Delimiter(boundary))

\* one pass of the loop body that pushes the segment before a delimiter
\* even when it is empty
SplitIter_KeepsEmpty ==
  /\ split.pc = "loop"
  /\ split.index < Len(split.buffer)
  /\ LET found == IndexOf(split.buffer, split.delimiter, split.start) IN
     split' =
       IF found = -1
       THEN [split EXCEPT !.index = found, !.pc = "done",
               !.parts = IF split.start < Len(split.buffer)
                         THEN Append(@, Slice(split.buffer, split.start, Len(split.buffer)))
                         ELSE @]
       ELSE [split EXCEPT !.index = found, !.start = found + Len(split.delimiter),
               !.parts = Append(@, Slice(split.buffer, split.start, found))]
  /\ UNCHANGED <<uploads, social>>

\* one pass of the loop body that leaves start at the delimiter it found
SplitIter_NoAdvance ==
  /\ split.pc = "loop"
  /\ split.index < Len(split.buffer)
  /\ LET found == IndexOf(split.buffer, split.delimiter, split.start) IN
     split' =
       IF found = -1
       THEN [split EXCEPT !.index = found, !.pc = "done",
               !.parts = IF split.start < Len(split.buffer)
                         THEN Append(@, Slice(split.buffer, split.start, Len(split.buffer)))
                         ELSE @]
       ELSE [split EXCEPT !.index = found, !.start = found,
               !.parts = IF found > split.start
                         THEN Append(@, Slice(split.buffer, split.start, found))
                         ELSE @]
  /\ UNCHANGED <<uploads, social>>

\* one pass of the loop body: indexOf from start; with no delimiter left the
\* remainder is pushed when it is not empty and the loop is left; otherwise
\* the segment before the delimiter is pushed when it is not empty and
\* start moves behind the delimiter
SplitIter ==
  /\ split.pc = "loop"
  /\ split.index < Len(split.buffer)
  /\ LET found == IndexOf(split.buffer, split.delimiter, split.start) IN
     split' =
       IF found = -1
       THEN [split EXCEPT !.index = found, !.pc = "done",
               !.parts = IF split.start < Len(split.buffer)
                         THEN Append(@, Slice(split.buffer, split.start, Len(split.buffer)))
                         ELSE @]
       ELSE [split EXCEPT !.index = found, !.start = found + Len(split.delimiter),
               !.parts = IF found > split.start
                         THEN Append(@, Slice(split.buffer, split.start, found))
                         ELSE @]
  /\ UNCHANGED <<uploads, social>>

\* the loop test fails: return parts
SplitExit ==
  /\ split.pc = "loop"
  /\ ~(split.index < Len(split.buffer))
  /\ split' = [split EXCEPT !.pc = "done"]
  /\ UNCHANGED <<uploads, social>>

NextSplit ==
  \/ SplitIter
  \/ SplitExit

\* splitBuffer on every body up to MaxBufLen bytes
SpecSplit == InitSplit /\ [][NextSplit]_vars

\* ------------------------------------------------------------ PostService
\* largest number of rows of the Post table
MaxPosts == 2
PostIds == 1..MaxPosts

\* authenticated users that read posts
Viewers == Users \cup {"u3"}
\* the collegeId the profile service holds for a user
CollegeOf(u) == IF u = "u2" THEN "c2" ELSE "c1"

\* a || b on strings
Or(a, b) == IF a # "" THEN a ELSE b

\* getUserProfile(userId).collegeId: the profile's collegeId, and
\* 'default-college' when the fetch fails or the response is not ok
getUserProfile(userId, ok) == IF ok THEN Or(CollegeOf(userId), "default-college") ELSE "default-college"

ErrMedia == "Some media files not found or not owned by user"
ErrPostNotFound == "Post not found"
ErrUnauthorized == "Unauthorized to update this post"
\* findUniqueOrThrow without a row, delete without a row
ErrNoRecord == "prisma: record not found"
\* insert of a second row with the same unique key
ErrUnique == "prisma: unique constraint failed"
\* insert of a row that references no post
ErrForeignKey == "prisma: foreign key constraint failed"

\* the positions of a caller between two calls
AtRest == {"idle", "returned", "failed"}

Range(s) == {s[i] : i \in DOMAIN s}

RECURSIVE Ascending(_)
\* the elements of a set of numbers in increasing order
Ascending(S) ==
  IF S = {} THEN <<>>
  ELSE LET least == CHOOSE i \in S : \A j \in S : i <= j
       IN <<least>> \o Ascending(S \ {least})

RECURSIVE Descending(_)
Descending(S) ==
  IF S = {} THEN <<>>
  ELSE LET most == CHOOSE i \in S : \A j \in S : i >= j
       IN <<most>> \o Descending(S \ {most})

\* media.findMany with the ownerUserId condition left out
OwnedMedia_AnyOwner(mediaIds, userId) ==
  Ascending({i \in DOMAIN media : i \in Range(mediaIds)})

\* prisma.media.findMany({ where: { id: { in: mediaIds }, ownerUserId } }):
\* each matching row once
OwnedMedia(mediaIds, userId) ==
  Ascending({i \in DOMAIN media : i \in Range(mediaIds) /\ media[i].ownerUserId = userId})

\* a call ends with a result
Returned(c, result) ==
  [call[c] EXCEPT !.pc = "returned", !.result = result, !.data = <<>>,
                  !.where = <<>>, !.existingMedia = <<>>]

\* a call ends with an error thrown
Failed(c, error) ==
  [call[c] EXCEPT !.pc = "failed", !.error = error, !.data = <<>>,
                  !.where = <<>>, !.existingMedia = <<>>]

\* the PostMedia rows of a post
LinksOf(postId) == {pm \in postMedia : pm.postId = postId}

\* a post's row and its PostMedia rows as they are, kept in chain.base by
\* updatePost as what its call started from
RowAndLinks(postId) == [post |-> posts[postId], links |-> LinksOf(postId)]

\* createPost up to the await of prisma.post.create: the profile fetch and
\* the author fields, the request's first, then the token's, then the
\* profile's
CreatePost(c, user, data, profileOk) ==
  /\ call[c].pc \in AtRest
  /\ Len(posts) < MaxPosts
  /\ call' = [call EXCEPT ![c] =
       [IdleCall EXCEPT !.op = "createPost", !.pc = "create", !.user = user.sub,
          !.data = data,
          !.authorCollegeId =
             Or(data.authorCollegeId,
                Or(user.collegeId, Or(getUserProfile(user.sub, profileOk), "default-college")))]]
  /\ UNCHANGED <<posts, postMedia, postLike, userFollow, postComment, uploads, split>>

\* prisma.post.create; likeCount takes the column's default
PostCreate(c) ==
  /\ call[c].op = "createPost" /\ call[c].pc = "create"
  /\ posts' = Append(posts,
       [authorId |-> call[c].user, authorCollegeId |-> call[c].authorCollegeId,
        visibility |-> Or(call[c].data.visibility, "PUBLIC"),
        content |-> call[c].data.content, likeCount |-> 0, commentCount |-> 0])
  /\ call' = [call EXCEPT ![c] =
       [@ EXCEPT !.postId = Len(posts) + 1,
                 !.pc = IF call[c].data.mediaIds.present /\ Len(call[c].data.mediaIds.value) > 0
                        THEN "findMedia" ELSE "fetch"]]
  /\ UNCHANGED <<postMedia, postLike, userFollow, postComment, uploads, split>>

\* media.findMany for the requested ids owned by the caller, and the test
\* of the number of rows found against the number of ids requested
FindMedia(c) ==
  /\ call[c].pc = "findMedia"
  /\ LET existingMedia == OwnedMedia(call[c].data.mediaIds.value, call[c].user) IN
     call' = [call EXCEPT ![c] =
       IF Len(existingMedia) # Len(call[c].data.mediaIds.value)
       THEN Failed(c, ErrMedia)
       ELSE [@ EXCEPT !.pc = "link", !.existingMedia = existingMedia]]
  /\ UNCHANGED <<posts, postMedia, postLike, userFollow, postComment, uploads, split>>

\* postMedia.createMany: one row per media found, in one statement that
\* inserts every row or rejects
LinkMedia(c, ok) ==
  /\ call[c].pc = "link"
  /\ IF ok
     THEN /\ postMedia' = postMedia \cup
               {[postId |-> call[c].postId, mediaId |-> call[c].existingMedia[i],
                 order |-> i - 1] : i \in DOMAIN call[c].existingMedia}
          /\ call' = [call EXCEPT ![c] = [@ EXCEPT !.pc = "fetch"]]
     ELSE /\ postMedia' = postMedia
          /\ call' = [call EXCEPT ![c] = Failed(c, ErrUnique)]
  /\ UNCHANGED <<posts, postLike, userFollow, postComment, uploads, split>>

\* return this.getPostById(post.id, user.sub)
ReturnPost(c) ==
  /\ call[c].pc = "fetch"
  /\ call' = [call EXCEPT ![c] = [Returned(c, <<call[c].postId>>) EXCEPT !.chain = NoChain]]
  /\ UNCHANGED <<posts, postMedia, postLike, userFollow, postComment, uploads, split>>

\* updatePost up to the await of prisma.post.update: the row is read and
\* the caller must be its author
UpdatePost(c, userId, postId, data) ==
  /\ call[c].pc \in AtRest
  /\ call' = [call EXCEPT ![c] =
       LET started == [IdleCall EXCEPT !.op = "updatePost", !.user = userId,
                                       !.postId = postId] IN
       IF postId \notin DOMAIN posts
       THEN [started EXCEPT !.pc = "failed", !.error = ErrPostNotFound]
       ELSE IF posts[postId].authorId # userId
       THEN [started EXCEPT !.pc = "failed", !.error = ErrUnauthorized]
       ELSE [started EXCEPT !.pc = "update", !.data = data,
                            !.chain = [NoChain EXCEPT !.base = RowAndLinks(postId)]]]
  /\ UNCHANGED <<posts, postMedia, postLike, userFollow, postComment, uploads, split>>

\* prisma.post.update: content and visibility, each left alone when the
\* request does not carry it
PostUpdate(c) ==
  /\ call[c].op = "updatePost" /\ call[c].pc = "update"
  /\ posts' = [posts EXCEPT ![call[c].postId] =
       [@ EXCEPT !.content = Or(call[c].data.content, @),
                 !.visibility = Or(call[c].data.visibility, @)]]
  /\ call' = [call EXCEPT ![c] =
       [@ EXCEPT !.pc = IF call[c].data.mediaIds.present THEN "unlink" ELSE "fetch"]]
  /\ UNCHANGED <<postMedia, postLike, userFollow, postComment, uploads, split>>

\* postMedia.deleteMany({ where: { postId } }), run for any mediaIds the
\* request carries, the empty list too
UnlinkMedia(c) ==
  /\ call[c].pc = "unlink"
  /\ postMedia' = {pm \in postMedia : pm.postId # call[c].postId}
  /\ call' = [call EXCEPT ![c] =
       [@ EXCEPT !.pc = IF Len(call[c].data.mediaIds.value) > 0 THEN "findMedia" ELSE "fetch"]]
  /\ UNCHANGED <<posts, postLike, userFollow, postComment, uploads, split>>

\* the Media row and the file an upload of input i by user leaves behind
UploadedRow(user, i, timestamp, random) ==
  LET fileData == parseMultipartFile(i.contentType, i.rawBody)
      filename == FileName(timestamp, random, ExtName(fileData.filename))
  IN [url |-> <<baseUrl, "/uploads/", filename>>, mimeType |-> fileData.mimeType,
      sizeBytes |-> ByteLength(fileData.content), storageKey |-> filename,
      ownerUserId |-> user]

PngUpload == Input(MultipartHeader, Present(EncodeBody(Boundary, <<PngFile(<<"a">>)>>)), <<PngFile(<<"a">>)>>)

\* the Media table after u1 and u2 have uploaded a file each
UploadedMedia == <<UploadedRow("u1", PngUpload, 0, 1), UploadedRow("u2", PngUpload, 0, 2)>>

\* the state after those two uploads
InitUploaded ==
  /\ req = [r \in Requests |-> IdleRequest]
  /\ media = UploadedMedia
  /\ files = [k \in {UploadedMedia[1].storageKey, UploadedMedia[2].storageKey} |->
                parseMultipartFile(PngUpload.contentType, PngUpload.rawBody).content]
  /\ now = 0

\* the mediaIds of a request: none, the empty list, the caller's own media,
\* another user's, one of each, one id twice, an id of no row
MediaIdLists ==
  {Absent, Present(<<>>), Present(<<1>>), Present(<<2>>), Present(<<2, 1>>),
   Present(<<1, 1>>), Present(<<3>>)}

PostData(content, visibility, authorCollegeId, mediaIds) ==
  [content |-> content, authorCollegeId |-> authorCollegeId,
   mediaIds |-> mediaIds, visibility |-> visibility]

\* a token that carries the user's college
Token(user) == [sub |-> user, collegeId |-> CollegeOf(user)]

InitPosts ==
  /\ InitUploaded
  /\ split = IdleSplit
  /\ InitSocial

\* caller 1 creates posts while caller 2 updates them
NextPosts ==
  \/ \E user \in Users, mediaIds \in MediaIdLists :
       CreatePost(1, Token(user), PostData("t1", "", "", mediaIds), TRUE)
  \/ PostCreate(1)
  \/ \E c \in {1, 2} : FindMedia(c)
  \/ \E c \in {1, 2}, ok \in BOOLEAN : LinkMedia(c, ok)
  \/ \E c \in {1, 2} : ReturnPost(c)
  \/ \E user \in Users, postId \in PostIds, content \in {"", "t2"}, mediaIds \in MediaIdLists :
       UpdatePost(2, user, postId, PostData(content, "", "", mediaIds))
  \/ PostUpdate(2)
  \/ UnlinkMedia(2)

SpecPosts == InitPosts /\ [][NextPosts]_vars

\* where clauses of post.findMany: the authors a post may have (any author
\* when anyAuthor), and the visibility it may have: any, or PUBLIC, or
\* COLLEGE with the given authorCollegeId
PublicOnly == [anyAuthor |-> TRUE, authors |-> {}, anyVisibility |-> FALSE, college |-> ""]
NeverMatch == [anyAuthor |-> FALSE, authors |-> {"never-match"}, anyVisibility |-> TRUE, college |-> ""]
PublicOrCollege(anyAuthor, authors, collegeId) ==
  [anyAuthor |-> anyAuthor, authors |-> authors, anyVisibility |-> FALSE, college |-> collegeId]

Matches(post, where) ==
  /\ where.anyAuthor \/ post.authorId \in where.authors
  /\ \/ where.anyVisibility
     \/ post.visibility = "PUBLIC"
     \/ post.visibility = "COLLEGE" /\ post.authorCollegeId = where.college

\* the scope filter of getFeed
ScopeFilter(scope, userId, profileOk) ==
  LET collegeId == getUserProfile(userId, profileOk)
      following == {f[2] : f \in {e \in userFollow : e[1] = userId}}
  IN CASE scope = "college" ->
            IF userId # "" /\ collegeId # ""
            THEN PublicOrCollege(TRUE, {}, collegeId)
            ELSE PublicOnly
       [] scope = "following" ->
            IF userId # "" /\ following # {}
            THEN PublicOrCollege(FALSE, following, Or(collegeId, "no-college"))
            ELSE NeverMatch
       [] OTHER -> PublicOnly

\* getFeed up to the await of post.findMany: the where clause is built, with
\* the rows of userFollow and the profile fetch its scope asks for. The
\* type, search, author and cursor conditions and the limit, which only
\* drop posts from the result, are left out.
GetFeed(c, userId, scope, profileOk) ==
  /\ call[c].pc \in AtRest
  /\ call' = [call EXCEPT ![c] =
       [IdleCall EXCEPT !.op = "getFeed", !.pc = "query", !.user = userId,
                        !.where = ScopeFilter(scope, userId, profileOk)]]
  /\ UNCHANGED <<posts, postMedia, postLike, userFollow, postComment, uploads, split>>

\* post.findMany: the matching posts, newest first
FeedQuery(c) ==
  /\ call[c].op = "getFeed" /\ call[c].pc = "query"
  /\ call' = [call EXCEPT ![c] =
       Returned(c, Descending({p \in DOMAIN posts : Matches(posts[p], call[c].where)}))]
  /\ UNCHANGED <<posts, postMedia, postLike, userFollow, postComment, uploads, split>>

\* GET /v1/posts/:postId with or without a token: findUniqueOrThrow by id
GetPostById(c, userId, postId) ==
  /\ call[c].pc \in AtRest
  /\ call' = [call EXCEPT ![c] =
       LET started == [IdleCall EXCEPT !.op = "getPostById", !.user = userId,
                                       !.postId = postId] IN
       IF postId \in DOMAIN posts
       THEN [started EXCEPT !.pc = "returned", !.result = <<postId>>]
       ELSE [started EXCEPT !.pc = "failed", !.error = ErrNoRecord]]
  /\ UNCHANGED <<posts, postMedia, postLike, userFollow, postComment, uploads, split>>

\* follow relations: nobody follows anybody, u2 and u3 follow u1
FollowGraphs == {{}, {<<"u2", "u1">>, <<"u3", "u1">>}}

InitFeed ==
  /\ InitUploads
  /\ split = IdleSplit
  /\ posts = << >>
  /\ postMedia = {}
  /\ postLike = {}
  /\ postComment = << >>
  /\ userFollow \in FollowGraphs
  /\ call = [c \in Callers |-> IdleCall]

Scopes == {"global", "college", "following"}

\* caller 1 creates posts, public and for its college; caller 2 reads the
\* feed and single posts, with a token or without ("")
NextFeed ==
  \/ \E user \in Users, visibility \in {"", "COLLEGE"}, profileOk \in BOOLEAN :
       \E collegeId \in {"", CollegeOf(user)} :
         CreatePost(1, [sub |-> user, collegeId |-> collegeId],
                    PostData("t1", visibility, "", Absent), profileOk)
  \/ PostCreate(1)
  \/ ReturnPost(1)
  \/ \E viewer \in Viewers \cup {""}, postId \in PostIds : GetPostById(2, viewer, postId)
  \/ \E viewer \in Viewers \cup {""}, scope \in Scopes, profileOk \in BOOLEAN :
       GetFeed(2, viewer, scope, profileOk)
  \/ FeedQuery(2)

SpecFeed == InitFeed /\ [][NextFeed]_vars

\* the PostLike rows and the counter of a post
Snapshot(postId) ==
  IF postId \in DOMAIN posts
  THEN [likes |-> postLike, count |-> posts[postId].likeCount]
  ELSE <<>>

\* likePost up to the await after postLike.findUnique: the caller's row for
\* the post is looked up and the branch is chosen
LikePost(c, userId, postId) ==
  /\ call[c].pc \in AtRest
  /\ LET continuing ==
           /\ call[c].op = "likePost" /\ call[c].pc = "returned"
           /\ call[c].user = userId /\ call[c].postId = postId
           /\ call[c].chain.live /\ call[c].chain.n < 2
         alone == \A d \in Callers \ {c} : call[d].pc \in AtRest
         existingLike == <<postId, userId>> \in postLike
     IN call' = [d \in Callers |->
          IF d = c
          THEN [IdleCall EXCEPT !.op = "likePost", !.user = userId, !.postId = postId,
                  !.pc = IF existingLike THEN "unlike" ELSE "like",
                  !.chain = IF continuing THEN call[c].chain
                            ELSE [n |-> 0, live |-> alone /\ postId \in DOMAIN posts,
                                  base |-> Snapshot(postId)]]
          ELSE [call[d] EXCEPT !.chain = NoChain]]
  /\ UNCHANGED <<posts, postMedia, postLike, userFollow, postComment, uploads, split>>

\* postLike.create: rejected when the post has this user's row already, the
\* key (postId, userId) being unique, and when there is no such post
LikeCreate(c) ==
  /\ call[c].op = "likePost" /\ call[c].pc = "like"
  /\ LET row == <<call[c].postId, call[c].user>> IN
     IF call[c].postId \notin DOMAIN posts
     THEN /\ postLike' = postLike
          /\ call' = [call EXCEPT ![c] = Failed(c, ErrForeignKey)]
     ELSE IF row \in postLike
     THEN /\ postLike' = postLike
          /\ call' = [call EXCEPT ![c] = Failed(c, ErrUnique)]
     ELSE /\ postLike' = postLike \cup {row}
          /\ call' = [call EXCEPT ![c] = [@ EXCEPT !.pc = "increment"]]
  /\ UNCHANGED <<posts, postMedia, userFollow, postComment, uploads, split>>

\* postLike.delete: rejected when the row is gone
LikeDelete(c) ==
  /\ call[c].op = "likePost" /\ call[c].pc = "unlike"
  /\ LET row == <<call[c].postId, call[c].user>> IN
     IF row \notin postLike
     THEN /\ postLike' = postLike
          /\ call' = [call EXCEPT ![c] = Failed(c, ErrNoRecord)]
     ELSE /\ postLike' = postLike \ {row}
          /\ call' = [call EXCEPT ![c] = [@ EXCEPT !.pc = "decrement"]]
  /\ UNCHANGED <<posts, postMedia, userFollow, postComment, uploads, split>>

\* post.update with likeCount: { increment: 1 } or { decrement: 1 }, then
\* liked is set
LikeCount(c) ==
  /\ call[c].op = "likePost" /\ call[c].pc \in {"increment", "decrement"}
  /\ posts' = [posts EXCEPT ![call[c].postId] =
       [@ EXCEPT !.likeCount = IF call[c].pc = "increment" THEN @ + 1 ELSE @ - 1]]
  /\ call' = [call EXCEPT ![c] =
       [@ EXCEPT !.pc = "read", !.liked = (call[c].pc = "increment")]]
  /\ UNCHANGED <<postMedia, postLike, userFollow, postComment, uploads, split>>

\* post.findUnique and return { liked, likeCount: post?.likeCount || 0 }
LikeReturn(c) ==
  /\ call[c].op = "likePost" /\ call[c].pc = "read"
  /\ call' = [call EXCEPT ![c] =
       [@ EXCEPT !.pc = "returned", !.likeCount = posts[call[c].postId].likeCount,
                 !.chain = IF @.live THEN [@ EXCEPT !.n = @ + 1] ELSE @]]
  /\ UNCHANGED <<posts, postMedia, postLike, userFollow, postComment, uploads, split>>

\* a post as createPost by user leaves it
NewPost(user, visibility) ==
  [authorId |-> user, authorCollegeId |-> CollegeOf(user), visibility |-> visibility,
   content |-> "t1", likeCount |-> 0, commentCount |-> 0]

\* one post of u1, nobody has liked it
InitLikes ==
  /\ InitUploads
  /\ split = IdleSplit
  /\ posts = <<NewPost("u1", "PUBLIC")>>
  /\ postMedia = {}
  /\ postLike = {}
  /\ postComment = << >>
  /\ userFollow = {}
  /\ call = [c \in Callers |-> IdleCall]

\* every caller likes and unlikes, as any user, the post or a post that
\* does not exist
NextLikes ==
  \/ \E c \in Callers, userId \in Users, postId \in PostIds : LikePost(c, userId, postId)
  \/ \E c \in Callers : LikeCreate(c)
  \/ \E c \in Callers : LikeDelete(c)
  \/ \E c \in Callers : LikeCount(c)
  \/ \E c \in Callers : LikeReturn(c)

SpecLikes == InitLikes /\ [][NextLikes]_vars

\* --------------------------------------------- an upload decoded in steps
\* uploadAndCreateMedia up to the call of splitBuffer: the header tests and
\* the test for an empty body; parseMultipartFile has no await, so no new
\* request is taken up while the loop of splitBuffer runs
UploadStart(r, user, contentType, rawBody, sent) ==
  /\ req[r].pc = "idle"
  /\ split.pc # "loop"
  /\ LET started == [req[r] EXCEPT !.user = user, !.contentType = contentType,
                                   !.rawBody = rawBody, !.sent = sent,
                                   !.op = "uploadAndCreateMedia"] IN
     IF ~IsMultipart(contentType) \/ ~HasBoundary(contentType.value)
     THEN /\ req' = [req EXCEPT ![r] =
                 [started EXCEPT !.pc = "failed",
                    !.error = parseMultipartFile(contentType, rawBody).kind,
                    !.stages = <<"SEARCH_BOUNDARY", "FAILED">>]]
          /\ split' = split
     ELSE IF ~rawBody.present \/ Len(rawBody.value) = 0
     THEN /\ req' = [req EXCEPT ![r] =
                 [started EXCEPT !.pc = "parsed", !.stages = <<"SEARCH_BOUNDARY">>]]
          /\ split' = split
     ELSE /\ req' = [req EXCEPT ![r] =
                 [started EXCEPT !.pc = "splitting",
                                 !.stages = <<"SEARCH_BOUNDARY", "SPLIT_PARTS">>]]
          /\ split' = SplitCall(rawBody.value, Delimiter(BoundaryOf(contentType.value)))
  /\ UNCHANGED <<files, media, now, social>>

\* splitBuffer has returned: the loop over the parts selects the file
UploadParsed(r) ==
  /\ req[r].pc = "splitting"
  /\ split.pc = "done"
  /\ LET fileData == SelectFile(split.parts, 1) IN
     req' = [req EXCEPT ![r] =
               [@ EXCEPT !.pc = "parsed", !.fileData = fileData,
                         !.stages = @ \o <<"PARSE_HEADERS", "SELECT_FILE">>]]
  /\ split' = IdleSplit
  /\ UNCHANGED <<files, media, now, social>>

\* largest body of a request that is not the encoding of parts
MaxRawLen == 4

\* multipart requests whose body is any byte string up to MaxRawLen bytes
RawInputs ==
  {Input(Present(<<TokMultipart, TokSemi, TokBoundary>> \o boundary), Present(buffer), <<>>) :
     boundary \in SplitBoundaries, buffer \in Buffers(MaxRawLen)}

\* splitBuffer is only called with a body that is not empty, where index,
\* the offset of a delimiter found, stays below the length of the body: the
\* loop is left by its break, never by its test
NextLive ==
  \/ \E i \in FewInputs \cup RawInputs :
       UploadStart(1, UserOf(1), i.contentType, i.rawBody, i.sent)
  \/ SplitIter
  \/ UploadParsed(1)
  \/ Write(1) /\ UNCHANGED <<split, social>>
  \/ Create(1) /\ UNCHANGED <<split, social>>
  \/ Reply(1) /\ UNCHANGED <<split, social>>

\* synchronous code runs on and every await settles; whether a request
\* arrives is up to the client
FairLive ==
  /\ WF_vars(SplitIter)
  /\ WF_vars(UploadParsed(1))
  /\ WF_vars(Write(1) /\ UNCHANGED <<split, social>>)
  /\ WF_vars(Create(1) /\ UNCHANGED <<split, social>>)
  /\ WF_vars(Reply(1) /\ UNCHANGED <<split, social>>)

\* one upload, decoded step by step, under fair scheduling
SpecLive == Init /\ [][NextLive]_vars /\ FairLive

\* ------------------------------------------------- header names and values
\* the part p with its header names in canonical capitalisation
Canonical(p) == [p EXCEPT !.disp = IF @ \in {"lowerfile", "lowertype"} THEN "file" ELSE @]

LowerFile(body) == Part("lowerfile", PngName, Png, TRUE, body)
LowerTypeFile(body) == Part("lowertype", PngName, Jpeg, TRUE, body)

\* a file part whose Content-Type header has a blank value
BlankTypeFile(body) == Part("file", PngName, <<SP>>, TRUE, body)

\* one-part requests: a file part in canonical capitalisation, with both
\* header names in lower case, with only Content-Type in lower case, with
\* a blank Content-Type value, with no Content-Type header
CaseInputs ==
  {Input(MultipartHeader, Present(EncodeBody(Boundary, <<p>>)), <<p>>) :
     p \in UNION {{PngFile(b), LowerFile(b), LowerTypeFile(b), Canonical(LowerTypeFile(b)),
                   BlankTypeFile(b)} : b \in {<<>>, <<"a">>}} \cup {BareFile}}

\* one upload at a time, over the requests of CaseInputs
NextCase ==
  \/ Tick /\ UNCHANGED <<split, social>>
  \/ UploadFrom(1, Users, CaseInputs) /\ UNCHANGED <<split, social>>
  \/ Write(1) /\ UNCHANGED <<split, social>>
  \/ Create(1) /\ UNCHANGED <<split, social>>
  \/ Reply(1) /\ UNCHANGED <<split, social>>

SpecCase == Init /\ [][NextCase]_vars

\* ------------------------------------------------------------ FollowService
\* Rows of userFollow made by followUser are <<followerId, followingId, c>>,
\* c the call that inserted the row, so that two rows of one pair are two
\* rows; the table's key followerId_followingId is enforced by create.
ErrSelfFollow == "Cannot follow yourself"

\* the rows of the pair (followerId, followingId)
FollowRows(followerId, followingId) ==
  {e \in userFollow : e[1] = followerId /\ e[2] = followingId}

\* followUser is called: the test for following oneself, then the await of
\* userFollow.findUnique
FollowUser(c, followerId, followingId) ==
  /\ call[c].pc \in AtRest
  /\ call' = [call EXCEPT ![c] =
       IF followerId = followingId
       THEN [IdleCall EXCEPT !.op = "followUser", !.user = followerId,
                             !.pc = "failed", !.error = ErrSelfFollow]
       ELSE [IdleCall EXCEPT !.op = "followUser", !.user = followerId,
                             !.data = [followingId |-> followingId], !.pc = "find"]]
  /\ UNCHANGED <<posts, postMedia, postLike, userFollow, postComment, uploads, split>>

\* unfollowUser is called: the await of userFollow.findUnique
UnfollowUser(c, followerId, followingId) ==
  /\ call[c].pc \in AtRest
  /\ call' = [call EXCEPT ![c] =
       [IdleCall EXCEPT !.op = "unfollowUser", !.user = followerId,
                        !.data = [followingId |-> followingId], !.pc = "find"]]
  /\ UNCHANGED <<posts, postMedia, postLike, userFollow, postComment, uploads, split>>

\* userFollow.findUnique answers and the call goes on to its write, or
\* returns success: false
FollowFind(c) ==
  /\ call[c].op \in {"followUser", "unfollowUser"} /\ call[c].pc = "find"
  /\ LET existingFollow == FollowRows(call[c].user, call[c].data.followingId) # {} IN
     call' = [call EXCEPT ![c] =
       IF call[c].op = "followUser"
       THEN IF existingFollow
            THEN Returned(c, [success |-> FALSE, message |-> "Already following this user"])
            ELSE [@ EXCEPT !.pc = "create"]
       ELSE IF ~existingFollow
            THEN Returned(c, [success |-> FALSE, message |-> "Not following this user"])
            ELSE [@ EXCEPT !.pc = "delete"]]
  /\ UNCHANGED <<posts, postMedia, postLike, userFollow, postComment, uploads, split>>

\* FollowCreate with no unique key on (followerId, followingId)
FollowCreate_NoKey(c) ==
  /\ call[c].op = "followUser" /\ call[c].pc = "create"
  /\ userFollow' = userFollow \cup {<<call[c].user, call[c].data.followingId, c>>}
  /\ call' = [call EXCEPT ![c] =
       Returned(c, [success |-> TRUE, message |-> "Successfully followed user"])]
  /\ UNCHANGED <<posts, postMedia, postLike, postComment, uploads, split>>

\* userFollow.create: rejected when the pair has a row, the key
\* followerId_followingId being unique
FollowCreate(c) ==
  /\ call[c].op = "followUser" /\ call[c].pc = "create"
  /\ IF FollowRows(call[c].user, call[c].data.followingId) # {}
     THEN /\ userFollow' = userFollow
          /\ call' = [call EXCEPT ![c] = Failed(c, ErrUnique)]
     ELSE /\ userFollow' = userFollow \cup {<<call[c].user, call[c].data.followingId, c>>}
          /\ call' = [call EXCEPT ![c] =
               Returned(c, [success |-> TRUE, message |-> "Successfully followed user"])]
  /\ UNCHANGED <<posts, postMedia, postLike, postComment, uploads, split>>

\* userFollow.delete by the key: rejected when the row is gone
FollowDelete(c) ==
  /\ call[c].op = "unfollowUser" /\ call[c].pc = "delete"
  /\ IF FollowRows(call[c].user, call[c].data.followingId) = {}
     THEN /\ userFollow' = userFollow
          /\ call' = [call EXCEPT ![c] = Failed(c, ErrNoRecord)]
     ELSE /\ userFollow' = userFollow \ FollowRows(call[c].user, call[c].data.followingId)
          /\ call' = [call EXCEPT ![c] =
               Returned(c, [success |-> TRUE, message |-> "Successfully unfollowed user"])]
  /\ UNCHANGED <<posts, postMedia, postLike, postComment, uploads, split>>

\* every caller follows and unfollows, as any user, any user
NextFollow ==
  \/ \E c \in Callers, a \in Users, b \in Users : FollowUser(c, a, b)
  \/ \E c \in Callers, a \in Users, b \in Users : UnfollowUser(c, a, b)
  \/ \E c \in Callers : FollowFind(c)
  \/ \E c \in Callers : FollowCreate(c)
  \/ \E c \in Callers : FollowDelete(c)

SpecFollow == Init /\ [][NextFollow]_vars

\* ------------------------------------------- MediaService: media of a post
ErrNoPost == "Post ${postId} not found"
ErrNoValidMedia == "No valid media IDs provided"

\* associateMediaWithPost is called: the await of post.findUnique
AssociateMediaWithPost(c, postId, mediaIds) ==
  /\ call[c].pc \in AtRest
  /\ call' = [call EXCEPT ![c] =
       [IdleCall EXCEPT !.op = "associateMediaWithPost", !.postId = postId,
                        !.data = [mediaIds |-> mediaIds], !.pc = "verifyPost"]]
  /\ UNCHANGED <<posts, postMedia, postLike, userFollow, postComment, uploads, split>>

\* post.findUnique answers: the post must exist
VerifyPost(c) ==
  /\ call[c].op = "associateMediaWithPost" /\ call[c].pc = "verifyPost"
  /\ call' = [call EXCEPT ![c] =
       IF call[c].postId \notin DOMAIN posts THEN Failed(c, ErrNoPost)
       ELSE [@ EXCEPT !.pc = "verifyMedia"]]
  /\ UNCHANGED <<posts, postMedia, postLike, userFollow, postComment, uploads, split>>

\* media.findMany({ where: { id: { in: mediaIds } } }): at least one row
\* must be found
VerifyMedia(c) ==
  /\ call[c].op = "associateMediaWithPost" /\ call[c].pc = "verifyMedia"
  /\ LET existingMedia == Ascending({i \in DOMAIN media : i \in Range(call[c].data.mediaIds)}) IN
     call' = [call EXCEPT ![c] =
       IF Len(existingMedia) = 0 THEN Failed(c, ErrNoValidMedia)
       ELSE [@ EXCEPT !.pc = "associate", !.existingMedia = existingMedia]]
  /\ UNCHANGED <<posts, postMedia, postLike, userFollow, postComment, uploads, split>>

\* postMedia.createMany with skipDuplicates: a row is inserted for every
\* media found that the post is not linked to yet
Associate(c) ==
  /\ call[c].op = "associateMediaWithPost" /\ call[c].pc = "associate"
  /\ LET existingMedia == call[c].existingMedia
         inserted == {[postId |-> call[c].postId, mediaId |-> existingMedia[i],
                       order |-> i - 1] :
                        i \in {k \in DOMAIN existingMedia :
                                 \A pm \in postMedia :
                                   ~(pm.postId = call[c].postId /\ pm.mediaId = existingMedia[k])}}
     IN /\ postMedia' = postMedia \cup inserted
        /\ call' = [call EXCEPT ![c] =
             Returned(c, [success |-> TRUE, associationsCreated |-> Cardinality(inserted),
                          mediaIds |-> existingMedia])]
  /\ UNCHANGED <<posts, postLike, userFollow, postComment, uploads, split>>

\* caller 1 creates posts with and without media of its own while caller
\* 2 associates media with posts
NextAssociate ==
  \/ \E user \in Users, mediaIds \in {Absent, Present(<<1>>), Present(<<2>>)} :
       CreatePost(1, Token(user), PostData("t1", "", "", mediaIds), TRUE)
  \/ PostCreate(1)
  \/ FindMedia(1)
  \/ \E ok \in BOOLEAN : LinkMedia(1, ok)
  \/ ReturnPost(1)
  \/ \E postId \in PostIds, mediaIds \in {<<1>>, <<2>>, <<1, 2>>, <<3>>} :
       AssociateMediaWithPost(2, postId, mediaIds)
  \/ VerifyPost(2)
  \/ VerifyMedia(2)
  \/ Associate(2)

SpecAssociate == InitPosts /\ [][NextAssociate]_vars

\* ------------------------------------------------- PostService: comments
\* createComment and deleteComment of PostService; CommentService has the
\* same statements in the same order.
MaxComments == 2
CommentIds == 1..MaxComments

ErrCommentNotFound == "Comment not found"
ErrUnauthorizedDelete == "Unauthorized to delete this comment"

\* the PostComment rows of a post
CommentsOf(postId) ==
  {i \in DOMAIN postComment : ~postComment[i].deleted /\ postComment[i].postId = postId}

\* createComment is called: the await of post.findUnique
CreateComment(c, postId, userId) ==
  /\ call[c].pc \in AtRest
  /\ Len(postComment) < MaxComments
  /\ call' = [call EXCEPT ![c] =
       [IdleCall EXCEPT !.op = "createComment", !.user = userId, !.postId = postId,
                        !.pc = "verifyPost"]]
  /\ UNCHANGED <<posts, postMedia, postLike, userFollow, postComment, uploads, split>>

\* post.findUnique answers: the post must exist; then the profile fetch
CommentVerifyPost(c) ==
  /\ call[c].op = "createComment" /\ call[c].pc = "verifyPost"
  /\ call' = [call EXCEPT ![c] =
       IF call[c].postId \notin DOMAIN posts THEN Failed(c, ErrPostNotFound)
       ELSE [@ EXCEPT !.pc = "comment"]]
  /\ UNCHANGED <<posts, postMedia, postLike, userFollow, postComment, uploads, split>>

\* postComment.create
CommentCreate(c) ==
  /\ call[c].op = "createComment" /\ call[c].pc = "comment"
  /\ postComment' = Append(postComment,
       [postId |-> call[c].postId, userId |-> call[c].user, deleted |-> FALSE])
  /\ call' = [call EXCEPT ![c] =
       [@ EXCEPT !.pc = "increment", !.data = [commentId |-> Len(postComment) + 1]]]
  /\ UNCHANGED <<posts, postMedia, postLike, userFollow, uploads, split>>

\* deleteComment is called: the await of postComment.findUnique
DeleteComment(c, commentId, userId) ==
  /\ call[c].pc \in AtRest
  /\ call' = [call EXCEPT ![c] =
       [IdleCall EXCEPT !.op = "deleteComment", !.user = userId,
                        !.data = [commentId |-> commentId], !.pc = "findComment"]]
  /\ UNCHANGED <<posts, postMedia, postLike, userFollow, postComment, uploads, split>>

\* postComment.findUnique answers: the comment must exist and be the caller's
FindComment(c) ==
  /\ call[c].op = "deleteComment" /\ call[c].pc = "findComment"
  /\ LET commentId == call[c].data.commentId IN
     call' = [call EXCEPT ![c] =
       IF commentId \notin DOMAIN postComment \/ postComment[commentId].deleted
       THEN Failed(c, ErrCommentNotFound)
       ELSE IF postComment[commentId].userId # call[c].user
       THEN Failed(c, ErrUnauthorizedDelete)
       ELSE [@ EXCEPT !.pc = "delete", !.postId = postComment[commentId].postId]]
  /\ UNCHANGED <<posts, postMedia, postLike, userFollow, postComment, uploads, split>>

\* CommentDelete that succeeds when the row is gone already
CommentDelete_Many(c) ==
  /\ call[c].op = "deleteComment" /\ call[c].pc = "delete"
  /\ postComment' = [postComment EXCEPT ![call[c].data.commentId] = [@ EXCEPT !.deleted = TRUE]]
  /\ call' = [call EXCEPT ![c] = [@ EXCEPT !.pc = "decrement"]]
  /\ UNCHANGED <<posts, postMedia, postLike, userFollow, uploads, split>>

\* postComment.delete: rejected when the row is gone
CommentDelete(c) ==
  /\ call[c].op = "deleteComment" /\ call[c].pc = "delete"
  /\ IF postComment[call[c].data.commentId].deleted
     THEN /\ postComment' = postComment
          /\ call' = [call EXCEPT ![c] = Failed(c, ErrNoRecord)]
     ELSE /\ postComment' = [postComment EXCEPT ![call[c].data.commentId] =
                               [@ EXCEPT !.deleted = TRUE]]
          /\ call' = [call EXCEPT ![c] = [@ EXCEPT !.pc = "decrement"]]
  /\ UNCHANGED <<posts, postMedia, postLike, userFollow, uploads, split>>

\* post.update with commentCount: { increment: 1 } or { decrement: 1 }, and
\* the call returns
CommentCount(c) ==
  /\ call[c].op \in {"createComment", "deleteComment"}
  /\ call[c].pc \in {"increment", "decrement"}
  /\ posts' = [posts EXCEPT ![call[c].postId] =
       [@ EXCEPT !.commentCount = IF call[c].pc = "increment" THEN @ + 1 ELSE @ - 1]]
  /\ call' = [call EXCEPT ![c] =
       Returned(c, IF call[c].pc = "increment" THEN <<call[c].data.commentId>>
                   ELSE [deleted |-> TRUE])]
  /\ UNCHANGED <<postMedia, postLike, userFollow, postComment, uploads, split>>

\* every caller comments, as any user, on the post or on a post that does
\* not exist, and deletes comments
NextComments ==
  \/ \E c \in Callers, postId \in PostIds, userId \in Users : CreateComment(c, postId, userId)
  \/ \E c \in Callers : CommentVerifyPost(c)
  \/ \E c \in Callers : CommentCreate(c)
  \/ \E c \in Callers, commentId \in CommentIds, userId \in Users :
       DeleteComment(c, commentId, userId)
  \/ \E c \in Callers : FindComment(c)
  \/ \E c \in Callers : CommentDelete(c)
  \/ \E c \in Callers : CommentCount(c)

SpecComments == InitLikes /\ [][NextComments]_vars

\* --------------------------------------------- uploads of any MIME type
\* a file part a.png declared with the given Content-Type value, or with no
\* Content-Type header
TypedFile(ctype, body) == Part("file", PngName, ctype, TRUE, body)

\* one-part requests that differ in the part's Content-Type only: two types
\* of allowedMimeTypes, one outside it, and no Content-Type header
MimeInputs ==
  {Input(MultipartHeader, Present(EncodeBody(Boundary, <<p>>)), <<p>>) :
     p \in {TypedFile(ctype, body) :
              ctype \in {Png, Jpeg, <<"text/plain">>, <<>>},
              body \in {<<"a">>, Run("a", maxFileSize + 1)}}}

\* concurrent uploads over the requests of MimeInputs
NextMime ==
  \/ Tick /\ UNCHANGED <<split, social>>
  \/ (\E r \in Requests : UploadFrom(r, {UserOf(r)}, MimeInputs)) /\ UNCHANGED <<split, social>>
  \/ (\E r \in Requests : Write(r)) /\ UNCHANGED <<split, social>>
  \/ (\E r \in Requests : Create(r)) /\ UNCHANGED <<split, social>>
  \/ (\E r \in Requests : Reply(r)) /\ UNCHANGED <<split, social>>

SpecMime == Init /\ [][NextMime]_vars

\* ============================================================== the claims
\* a request as a client builds it: the multipart header and the encoding
\* of the parts it sent
WellFormed(q) ==
  /\ q.contentType = MultipartHeader
  /\ q.rawBody = Present(EncodeBody(Boundary, q.sent))

\* the request is in the handler and its locals are alive
InHandler(q) == q.pc \in {"parsed", "written", "created", "failed"}

HasFilenameAttr(p) == p.disp \in {"file", "emptyfn"}
FilenameParts(ps) == {k \in 1..Len(ps) : HasFilenameAttr(ps[k])}
ContainsDelimiter(body) == IndexOf(body, Delimiter(Boundary), 0) # -1
IsPrefix(s, t) == Len(s) <= Len(t) /\ s = SubSeq(t, 1, Len(s))

\* the body with one part carrying a filename, complete and free of the
\* delimiter: the case of the round trip
OneFile(q) ==
  /\ WellFormed(q)
  /\ Cardinality(FilenameParts(q.sent)) = 1
  /\ \A k \in FilenameParts(q.sent) : q.sent[k].sep /\ ~ContainsDelimiter(q.sent[k].body)

TheFile(q) == q.sent[CHOOSE k \in FilenameParts(q.sent) : TRUE]

\* C1: decoding a body with exactly one part that carries a filename yields
\* as content exactly the bytes the client put in that part's body.
C1_RoundTrip ==
  \A r \in Requests :
    (req[r].pc = "parsed" /\ OneFile(req[r])) =>
      /\ req[r].fileData.kind = "file"
      /\ req[r].fileData.content = TheFile(req[r]).body

\* a single image/png file part with an N-byte body within the limit
ScenarioA(q) ==
  /\ WellFormed(q)
  /\ \E b \in FileBodies : Len(b) <= maxFileSize /\ q.sent = <<PngFile(b)>>

\* C2: scenario A ends with a record of mimeType image/png and sizeBytes N,
\* and the stored blob is the N bytes sent.
C2_ScenarioA ==
  \A r \in Requests :
    (ScenarioA(req[r]) /\ req[r].pc = "created") =>
      /\ media[req[r].mediaId].mimeType = Png
      /\ media[req[r].mediaId].sizeBytes = Len(req[r].sent[1].body)
      /\ files[media[req[r].mediaId].storageKey] = req[r].sent[1].body

\* the decoder selected a file larger than the configured maximum
Oversize(q) ==
  q.pc = "parsed" /\ q.fileData.kind = "file" /\ ByteLength(q.fileData.content) > maxFileSize

\* C3: a request whose selected file exceeds the maximum fails with "File
\* too large", and the step that rejects it, like every step of that
\* request before it, writes no file and creates no Media row.
C3_TooLargeWritesNothing ==
  [][\A r \in Requests :
       /\ (Oversize(req[r]) /\ req'[r] # req[r]) =>
            (req'[r].pc = "failed" /\ req'[r].error = ErrTooLarge)
       /\ (req'[r].error = ErrTooLarge /\ req[r].error # ErrTooLarge) =>
            /\ files' = files
            /\ media' = media
            /\ req'[r].filename = NoKey
            /\ req'[r].mediaId = 0]_vars

\* a request was rejected as too large while another one had stored a file
C3_Witness ==
  \E r \in Requests :
    /\ req[r].pc = "failed"
    /\ req[r].error = ErrTooLarge
    /\ DOMAIN files # {}
    /\ Len(media) > 0

\* C4: the upload is rejected as too large exactly when the body of the
\* file part, as the client sent it, is longer than the maximum.
C4_ExactLimit ==
  \A r \in Requests :
    (/\ WellFormed(req[r])
     /\ \E b \in FileBodies : req[r].sent = <<PngFile(b)>>
     /\ req[r].pc \in {"written", "created", "failed"}) =>
      (req[r].error = ErrTooLarge <=> Len(req[r].sent[1].body) > maxFileSize)

\* parts the decoder can read that carry a filename attribute
FileBearing(ps) == {k \in FilenameParts(ps) : ps[k].sep}
FirstFile(ps) == ps[CHOOSE k \in FileBearing(ps) : \A j \in FileBearing(ps) : k <= j]
SentName(p) == IF p.disp = "file" THEN p.fname ELSE <<"unknown">>
SentMime(p) == IF p.ctype = <<>> THEN <<"application/octet-stream">> ELSE p.ctype
TwoFiles(q) == WellFormed(q) /\ Cardinality(FileBearing(q.sent)) >= 2

\* C5: of two or more file parts the first in body order is the one
\* selected, stored and recorded: name, MIME type and bytes are the first
\* part's, and every file and Media row holds the first part's data only.
C5_FirstFileOnly ==
  \A r \in Requests :
    (TwoFiles(req[r]) /\ InHandler(req[r])) =>
      LET first == FirstFile(req[r].sent) IN
      /\ req[r].fileData.kind = "file"
      /\ req[r].fileData.filename = SentName(first)
      /\ req[r].fileData.mimeType = SentMime(first)
      /\ IsPrefix(req[r].fileData.content, first.body \o CRLF)
      /\ req[r].pc \in {"written", "created"} =>
           /\ req[r].filename.ext = ExtName(SentName(first))
           /\ files[req[r].filename] = req[r].fileData.content
      /\ req[r].pc = "created" =>
           /\ media[req[r].mediaId].mimeType = SentMime(first)
           /\ media[req[r].mediaId].storageKey = req[r].filename
           /\ media[req[r].mediaId].sizeBytes <= Len(first.body) + 2
      /\ \A k \in DOMAIN files : IsPrefix(files[k], first.body \o CRLF)
      /\ \A i \in DOMAIN media : media[i].mimeType = SentMime(first)

\* the upload of a png file followed by a jpeg file was stored and recorded
C5_Witness ==
  \E r \in Requests :
    /\ req[r].pc = "created"
    /\ WellFormed(req[r])
    /\ req[r].sent = <<PngFile(<<"a">>), JpgFile>>

\* every part that carries a filename attribute carries an empty one
OnlyEmptyFilenames(q) ==
  /\ WellFormed(q)
  /\ \E k \in 1..Len(q.sent) : q.sent[k].disp = "emptyfn"
  /\ \A k \in 1..Len(q.sent) : q.sent[k].disp # "file"

\* C6: a part with filename="" is never selected: a body whose only parts
\* with a filename attribute have an empty one yields no file, fails with
\* "No file uploaded" and stores nothing.
C6_EmptyFilenameNotSelected ==
  \A r \in Requests :
    (OnlyEmptyFilenames(req[r]) /\ InHandler(req[r])) =>
      /\ req[r].fileData.kind # "file"
      /\ req[r].pc = "failed" => req[r].error = ErrNoFile
      /\ req[r].pc \in {"parsed", "failed"}
      /\ req[r].filename = NoKey

\* no part that the decoder can read carries a filename attribute
NoFilePart(q) ==
  /\ q.contentType = MultipartHeader
  /\ \/ q.rawBody \in {Absent, Present(<<>>)}
     \/ /\ q.rawBody = Present(EncodeBody(Boundary, q.sent))
        /\ \A k \in 1..Len(q.sent) : q.sent[k].disp \in {"field", "none"} \/ ~q.sent[k].sep

\* C7: an upload with no part carrying a filename fails with "No file
\* uploaded"; it writes no file and creates no Media row.
C7_NoFileFound ==
  \A r \in Requests :
    (NoFilePart(req[r]) /\ InHandler(req[r])) =>
      /\ req[r].fileData.kind = "null"
      /\ req[r].pc \in {"parsed", "failed"}
      /\ req[r].pc = "failed" => req[r].error = ErrNoFile
      /\ req[r].filename = NoKey
      /\ req[r].mediaId = 0
      /\ files = << >>
      /\ media = << >>

\* a body with only a caption field was rejected for having no file
C7_Witness ==
  \E r \in Requests :
    /\ req[r].pc = "failed"
    /\ req[r].error = ErrNoFile
    /\ req[r].sent = <<CaptionField>>
    /\ NoFilePart(req[r])

\* the header is missing, names another media type or has no boundary=
BadContentType(h) ==
  \/ ~h.present
  \/ ~Includes(h.value, TokMultipart)
  \/ ~Includes(h.value, TokBoundary)

\* C8: with a missing or non-multipart Content-Type, or one without a
\* boundary= parameter, the upload fails with the content-type error
\* whatever the body, and no file or Media row comes of it.
C8_InvalidContentType ==
  \A r \in Requests :
    (BadContentType(req[r].contentType) /\ InHandler(req[r])) =>
      /\ req[r].pc = "failed"
      /\ req[r].error \in {ErrContentType, ErrNoBoundary}
      /\ req[r].fileData = NoFile
      /\ req[r].filename = NoKey
      /\ req[r].mediaId = 0
      /\ files = << >>
      /\ media = << >>

\* a request with a text/plain header and a complete file in its body failed
C8_Witness ==
  \E r \in Requests :
    /\ req[r].pc = "failed"
    /\ req[r].contentType = Present(<<"text/plain", TokSemi, TokBoundary>> \o Boundary)
    /\ req[r].sent = <<PngFile(<<"a">>)>>
    /\ req[r].error = ErrContentType

\* the status the error kinds are to be answered with
StatusOfError(e) ==
  CASE e \in {ErrContentType, ErrNoBoundary, ErrNoFile} -> 400
    [] e = ErrTooLarge -> 413
    [] e \in {ErrWrite, ErrCreate} -> 500
    [] OTHER -> 201

\* C9: a failed upload is answered 400 for a content-type or no-file error,
\* 413 for a file too large, 500 for a storage or database failure.
C9_StatusByKind ==
  \A r \in Requests :
    (req[r].pc = "done" /\ req[r].error # "") => req[r].status = StatusOfError(req[r].error)

\* C10: no two Media rows share a storageKey, every row's storageKey names
\* a stored file, and the bytes stored under a row's storageKey never change.
C10_WriteOnce ==
  [][/\ \A i, j \in DOMAIN media' : i # j => media'[i].storageKey # media'[j].storageKey
     /\ \A i \in DOMAIN media' : media'[i].storageKey \in DOMAIN files'
     /\ \A i \in DOMAIN media :
          /\ media[i].storageKey \in DOMAIN files
          /\ files'[media[i].storageKey] = files[media[i].storageKey]]_vars

\* C11: a failed write makes the upload fail with the write error and adds
\* no Media row; a Media row is added only by a request whose write has
\* completed, under the file name it wrote.
C11_NoRecordWithoutWrite ==
  [][/\ \A r \in Requests :
          (req'[r].error = ErrWrite /\ req[r].error # ErrWrite) =>
            (req'[r].pc = "failed" /\ req'[r].mediaId = 0 /\ media' = media)
     /\ \A r \in Requests : (req[r].error # "" /\ req'[r] # req[r]) => media' = media
     /\ media' # media =>
          \E r \in Requests :
            /\ req[r].pc = "written" /\ req[r].error = ""
            /\ req[r].filename \in DOMAIN files
            /\ media' = Append(media, media'[Len(media')])
            /\ media'[Len(media')].storageKey = req[r].filename]_vars

\* a write failed and left a truncated file, and no Media row exists
C11_Witness ==
  \E r \in Requests :
    /\ req[r].pc = "failed"
    /\ req[r].error = ErrWrite
    /\ req[r].filename \in DOMAIN files
    /\ media = << >>

Last(t) == t[Len(t)]
Ended(t) == t # <<>> /\ Last(t) \in {"FAILED", "DONE"}
\* the steps of a request without the closing FAILED
Steps(t) == IF t # <<>> /\ Last(t) = "FAILED" THEN SubSeq(t, 1, Len(t) - 1) ELSE t

\* C12: the steps a request has run are an initial part of the pipeline in
\* its order, closed by FAILED exactly when an error was raised; a request
\* answered 201 has run the whole pipeline; after FAILED or DONE no step
\* runs, and every step of a request adds to what it has run.
C12_PipelineOrder ==
  [][\A r \in Requests :
       /\ IsPrefix(Steps(req'[r].stages), Pipeline)
       /\ req'[r].pc # "idle" => Len(Steps(req'[r].stages)) >= 1
       /\ (req'[r].error # "") <=> (req'[r].stages # <<>> /\ Last(req'[r].stages) = "FAILED")
       /\ req'[r].status = 201 => req'[r].stages = Pipeline
       /\ Ended(req[r].stages) => req'[r].stages = req[r].stages
       /\ IsPrefix(req[r].stages, req'[r].stages)]_vars

\* one request has run the whole pipeline and another has failed
C12_Witness ==
  \E r, q \in Requests :
    /\ req[r].stages = Pipeline
    /\ req[q].stages # <<>>
    /\ Last(req[q].stages) = "FAILED"
    /\ Len(req[q].stages) > 2

ParseErrors == {ErrContentType, ErrNoBoundary}

SelectsOwnPart(q) ==
  LET p == q.sent[1] IN
  IF q.contentType = MultipartHeader /\ HasFilenameAttr(p) /\ p.sep
  THEN /\ q.fileData.kind = "file"
       /\ q.fileData.filename = SentName(p)
       /\ q.fileData.mimeType = SentMime(p)
       /\ IsPrefix(p.body, q.fileData.content)
       /\ Len(q.fileData.content) <= Len(p.body) + 2
  ELSE q.fileData = NoFile

\* C14: a step of one request changes no other request's locals, a request's
\* file is not changed after its decode, and under every interleaving each
\* request's file name, MIME type and content are those of its own part.
C14_RequestsIndependent ==
  [][/\ \A r, q \in Requests : r # q => (req'[r] = req[r] \/ req'[q] = req[q])
     /\ \A r \in Requests :
          /\ (InHandler(req[r]) /\ InHandler(req'[r])) => req'[r].fileData = req[r].fileData
          /\ (InHandler(req'[r]) /\ Len(req'[r].sent) = 1) => SelectsOwnPart(req'[r])]_vars

\* two requests with different files are in their handlers at the same time
C14_Witness ==
  \E r, q \in Requests :
    /\ req[r].pc = "written" /\ req[q].pc = "written"
    /\ req[r].sent = <<PngFile(<<"a">>)>>
    /\ req[q].sent = <<PngFile(<<"b">>)>>

\* C15: every Media row created by uploadAndCreateMedia or uploadFile is
\* owned by the authenticated user who made the request.
C15_OwnerIsCaller ==
  /\ \A i \in DOMAIN media : media[i].ownerUserId \in Users
  /\ \A r \in Requests :
       req[r].pc = "created" =>
         (req[r].user \in Users /\ media[req[r].mediaId].ownerUserId = req[r].user)

\* C16: a Media row's url is the base URL, "/uploads/" and its storageKey,
\* and its storageKey is the name of the file its request wrote.
C16_UrlAndKey ==
  /\ \A i \in DOMAIN media :
       media[i].url = <<baseUrl, "/uploads/", media[i].storageKey>>
  /\ \A r \in Requests :
       req[r].pc = "created" =>
         /\ media[req[r].mediaId].storageKey = req[r].filename
         /\ req[r].filename \in DOMAIN files
         /\ req[r].filename # NoKey

\* two uploads have created their rows
C16_Witness ==
  \E r, q \in Requests : r # q /\ req[r].pc = "created" /\ req[q].pc = "created"

\* d occurs in buf at 0-based offset i
Occurs(buf, d, i) == i + Len(d) <= Len(buf) /\ SubSeq(buf, i + 1, i + Len(d)) = d

RECURSIVE RefSegments(_, _)
\* the segments of buf between the delimiter occurrences a scan from the
\* left meets, each occurrence taken whole before the scan goes on behind it
RefSegments(buf, d) ==
  LET occ == {i \in 0..(Len(buf) - Len(d)) : Occurs(buf, d, i)} IN
  IF occ = {} THEN <<buf>>
  ELSE LET first == CHOOSE i \in occ : \A j \in occ : i <= j IN
       <<SubSeq(buf, 1, first)>>
         \o RefSegments(SubSeq(buf, first + Len(d) + 1, Len(buf)), d)

NonEmpty(s) == s # <<>>
\* the reference split: the segments that are not empty, in body order
RefSplit(buf, d) == SelectSeq(RefSegments(buf, d), NonEmpty)

\* C20: when splitBuffer returns, its parts are the non-empty segments
\* between the non-overlapping delimiter occurrences of a left-to-right
\* scan, in body order, with the non-empty remainder last; no part is empty
\* and no part contains the delimiter, so a delimiter inside a file's
\* content ends that part.
C20_ReferenceSplit ==
  split.pc = "done" =>
    /\ split.parts = RefSplit(split.buffer, split.delimiter)
    /\ splitBuffer(split.buffer, split.delimiter) = split.parts
    /\ \A k \in DOMAIN split.parts :
         /\ split.parts[k] # <<>>
         /\ \A i \in 0..Len(split.parts[k]) : ~Occurs(split.parts[k], split.delimiter, i)

\* a body with text before a delimiter, two delimiters in a row and text
\* after them
C20_Witness ==
  /\ split.pc = "done"
  /\ Len(split.parts) = 2
  /\ Len(RefSegments(split.buffer, split.delimiter)) = 3

\* every requested id is the id of a Media row owned by the user
AllOwned(mediaIds, user) ==
  \A i \in Range(mediaIds) : i \in DOMAIN media /\ media[i].ownerUserId = user

\* C17: a PostMedia row is only ever created by a step of a createPost or
\* updatePost call, for that call's post and for a media owned by its
\* caller, and only when every media id the call requested exists and is
\* owned by its caller; a call with a missing or foreign id creates none.
C17_LinksOnlyOwnedMedia ==
  [][\A pm \in postMedia' \ postMedia :
       \E c \in Callers :
         /\ call'[c] # call[c]
         /\ call[c].op \in {"createPost", "updatePost"}
         /\ pm.postId = call[c].postId
         /\ pm.mediaId \in DOMAIN media
         /\ media[pm.mediaId].ownerUserId = call[c].user
         /\ call[c].data.mediaIds.present
         /\ pm.mediaId \in Range(call[c].data.mediaIds.value)
         /\ AllOwned(call[c].data.mediaIds.value, call[c].user)]_vars

\* a post has its author's media linked, and an update that asked for media
\* it may not link has been refused
C17_Witness ==
  /\ \E pm \in postMedia : media[pm.mediaId].ownerUserId = posts[pm.postId].authorId
  /\ call[1].op = "createPost" /\ call[1].pc = "returned"
  /\ call[2].op = "updatePost" /\ call[2].error = ErrMedia

\* C18: getFeed and getPostById return a post with visibility COLLEGE only
\* to a viewer who carries a token and whose college is the post's
\* authorCollegeId.
C18_CollegeVisibility ==
  \A c \in Callers :
    (call[c].op \in {"getFeed", "getPostById"} /\ call[c].pc = "returned") =>
      \A p \in Range(call[c].result) :
        posts[p].visibility = "COLLEGE" =>
          (call[c].user # "" /\ CollegeOf(call[c].user) = posts[p].authorCollegeId)

\* no call of PostService is in progress
Quiescent == \A c \in Callers : call[c].pc \in AtRest

\* likeCount is the number of PostLike rows of every post
CountsAgree ==
  \A p \in DOMAIN posts : posts[p].likeCount = Cardinality({l \in postLike : l[1] = p})

\* a likePost call that returns when every other call has ended reports
\* whether its caller's row is there
FlagTellsRow(c) ==
  (/\ call[c].op = "likePost" /\ call[c].pc = "read" /\ call'[c].pc = "returned"
   /\ \A d \in Callers \ {c} : call[d].pc \in AtRest)
    => (call'[c].liked <=> <<call[c].postId, call[c].user>> \in postLike')

\* after two calls in a row by one user for one post, with no other call in
\* between, the rows and the counter are as before the first
PairRestores(c) ==
  (call[c].op = "likePost" /\ call[c].pc = "returned" /\ call[c].chain.live
   /\ call[c].chain.n = 2)
    => Snapshot(call[c].postId) = call[c].chain.base

\* C19: once every likePost call has ended, each post's likeCount is the
\* number of its PostLike rows; the liked flag a call returns tells whether
\* its caller's row exists then; two successive calls by one user restore
\* the rows and the counter.
C19_ToggleConsistent ==
  [][/\ Quiescent' => CountsAgree'
     /\ \A c \in Callers : FlagTellsRow(c)
     /\ \A c \in Callers : PairRestores(c)']_vars

\* a pass of the loop that has found a delimiter
FoundDelimiter == split.pc = "loop" /\ split'.pc = "loop" /\ split' # split

\* C21: the loop of splitBuffer ends for every body and boundary: a pass
\* either leaves the loop or moves the search offset forward by the length
\* of the delimiter, which is 2 or more; and every upload that was started
\* reaches DONE or FAILED.
C21_DecodingTerminates ==
  /\ [][FoundDelimiter =>
          /\ Len(split.delimiter) >= 2
          /\ split'.start >= split.start + Len(split.delimiter)
          /\ split'.start <= Len(split.buffer)]_vars
  /\ (split.pc = "loop") ~> (split.pc = "done")
  /\ \A r \in Requests : (req[r].pc # "idle") ~> Ended(req[r].stages)

\* the loop has passed a delimiter and has more of the body to search
C21_Witness ==
  /\ req[1].pc = "splitting"
  /\ split.pc = "loop"
  /\ split.start > 0
  /\ split.start < Len(split.buffer)
  /\ Len(split.parts) >= 1


\* request r is at the rejection of prisma.media.create, its file written
PersistFailed(r) == req[r].pc = "failed" /\ req[r].error = ErrCreate

\* the Media rows whose storageKey is the file name k
RowsOf(rows, k) == {i \in DOMAIN rows : rows[i].storageKey = k}

SeparatorAt(part) == IndexOf(part, HeaderEnd, 0)

\* the raw part passes the file test on the text before its first separator
RawFilePart(part) ==
  SeparatorAt(part) # -1 /\ IsFilePart(Slice(part, 0, SeparatorAt(part)))

\* the parts a client sent with a blank line and a filename attribute
SentFileParts(sent) ==
  {k \in DOMAIN sent : sent[k].sep /\ sent[k].disp \in {"file", "emptyfn"}}

\* C23: while a request holds the result of parseMultipartFile, the selected
\* file comes from the first raw part that has a CRLF CRLF and passes the
\* file test on the text before its first CRLF CRLF, its content being
\* everything after those 4 bytes; raw parts without CRLF CRLF are passed
\* over, before and after it, whatever they contain. In the client's terms:
\* the file is the first part sent with a blank line and a filename
\* attribute, also when parts sent without the blank line precede it, and
\* there is no file when no such part was sent.
C23_SeparatorRequired ==
  \A r \in Requests :
    (req[r].pc \in {"parsed", "written", "created"} /\ req[r].rawBody.present) =>
      LET f == req[r].fileData
          parts == splitBuffer(req[r].rawBody.value,
                               Delimiter(BoundaryOf(req[r].contentType.value)))
          raw == {k \in DOMAIN parts : RawFilePart(parts[k])}
          sent == SentFileParts(req[r].sent)
      IN /\ IF raw = {} THEN f.kind = "null"
            ELSE LET k == CHOOSE k \in raw : \A j \in raw : k <= j
                     at == SeparatorAt(parts[k])
                 IN /\ f.kind = "file"
                    /\ f.filename = FilenameOf(SubSeq(parts[k], 1, at))
                    /\ f.mimeType = MimeTypeOf(SubSeq(parts[k], 1, at))
                    /\ f.content = SubSeq(parts[k], at + 5, Len(parts[k]))
         /\ IF sent = {} THEN f.kind = "null"
            ELSE LET k == CHOOSE k \in sent : \A j \in sent : k <= j
                 IN /\ f.kind = "file"
                    /\ f.filename = IF req[r].sent[k].disp = "file"
                                    THEN req[r].sent[k].fname ELSE <<"unknown">>

\* a file part sent without the blank line, then a file part with it: the
\* second one is the file
C23_Witness ==
  /\ req[1].pc = "parsed"
  /\ req[1].sent = <<NoSeparatorFile, JpgFile>>
  /\ req[1].fileData.kind = "file"
  /\ req[1].fileData.filename = JpgName
  /\ req[1].fileData.content = <<"b">> \o CRLF


\* what parseMultipartFile finds in the request whose parts are ps
FileSent(ps) == parseMultipartFile(MultipartHeader, Present(EncodeBody(Boundary, ps)))

\* C24: a file part is selected, and yields the same filename and MIME
\* type, whatever the letter case of its header names: the file a request
\* holds after parsing is the one found in the same parts written with
\* Content-Disposition and Content-Type in canonical capitalisation.
C24_HeaderNamesAnyCase ==
  \A r \in Requests :
    (req[r].pc = "parsed" /\ req[r].sent # <<>>) =>
      LET f == req[r].fileData
          c == FileSent([k \in DOMAIN req[r].sent |-> Canonical(req[r].sent[k])])
      IN /\ f.kind = c.kind
         /\ f.filename = c.filename
         /\ f.mimeType = c.mimeType


DefaultMimeType == <<"application/octet-stream">>

\* C25: for a file part written with canonical header names, the file's
\* MIME type is the value of the part's Content-Type header, or
\* application/octet-stream when the part has no such header; it is never
\* empty, and the Media row created for the upload carries it.
C25_ResolvedMimeType ==
  \A r \in Requests :
    (req[r].pc \in {"parsed", "written", "created"} /\ req[r].fileData.kind = "file"
       /\ Len(req[r].sent) = 1 /\ req[r].sent[1].disp = "file") =>
      LET f == req[r].fileData
          p == req[r].sent[1]
      IN /\ f.mimeType = IF p.ctype = <<>> THEN DefaultMimeType ELSE Trim(p.ctype)
         /\ f.mimeType # <<>>
         /\ req[r].pc = "created" =>
              /\ media[req[r].mediaId].mimeType = f.mimeType
              /\ media[req[r].mediaId].mimeType # <<>>


\* call c takes the answer of userFollow.findUnique in this step
Looked(c) == call[c].pc = "find" /\ call'[c].pc # "find"

\* C26: whatever followUser and unfollowUser calls run and however their
\* steps interleave, userFollow has no row from a user to themself and at
\* most one row per (follower, following) pair; a followUser that finds the
\* pair's row and an unfollowUser that finds none return success: false and
\* write nothing, and a call that returns success: true leaves the pair
\* followed (followUser) or not followed (unfollowUser) at its return.
C26_FollowRelation ==
  /\ [](\A e \in userFollow : e[1] # e[2])
  /\ [](\A e \in userFollow : \A f \in userFollow : (e[1] = f[1] /\ e[2] = f[2]) => e = f)
  /\ [][\A c \in Callers :
          /\ (Looked(c) /\ (call[c].op = "followUser")
                = (FollowRows(call[c].user, call[c].data.followingId) # {})) =>
               /\ call'[c].pc = "returned"
               /\ call'[c].result.success = FALSE
               /\ userFollow' = userFollow
          /\ (call[c].op = "followUser" /\ call[c].pc = "create"
                /\ call'[c].pc = "returned") =>
               /\ call'[c].result.success
               /\ \E e \in userFollow' :
                    e[1] = call[c].user /\ e[2] = call[c].data.followingId
          /\ (call[c].op = "unfollowUser" /\ call[c].pc = "delete"
                /\ call'[c].pc = "returned") =>
               /\ call'[c].result.success
               /\ \A e \in userFollow' :
                    ~(e[1] = call[c].user /\ e[2] = call[c].data.followingId)]_vars

\* one call has returned success: false from followUser on a followed pair
\* while another has returned success: false from unfollowUser
C26_Witness ==
  \E c \in Callers, d \in Callers :
    /\ call[c].op = "followUser" /\ call[c].pc = "returned" /\ ~call[c].result.success
    /\ FollowRows(call[c].user, IF call[c].user = "u1" THEN "u2" ELSE "u1") # {}
    /\ call[d].op = "unfollowUser" /\ call[d].pc = "returned" /\ ~call[d].result.success


\* call c has thrown 'Some media files not found or not owned by user'
MediaRejected(c) == call[c].pc = "failed" /\ call[c].error = ErrMedia

\* C27: after a createPost or updatePost that threw the media error, the
\* tables are what they were when the call started: createPost has left no
\* post and no PostMedia row behind, and the post given to updatePost has
\* the content, visibility and PostMedia rows it had.
C27_MediaErrorChangesNothing ==
  \A c \in Callers :
    MediaRejected(c) =>
      IF call[c].op = "createPost"
      THEN /\ call[c].postId \notin DOMAIN posts
           /\ LinksOf(call[c].postId) = {}
      ELSE RowAndLinks(call[c].postId) = call[c].chain.base


\* C28: every PostMedia row links a post to a media whose ownerUserId is
\* the post's authorId, whichever of createPost, updatePost and
\* associateMediaWithPost created it.
C28_LinksOwnedByAuthor ==
  \A pm \in postMedia :
    /\ pm.postId \in DOMAIN posts /\ pm.mediaId \in DOMAIN media
    /\ media[pm.mediaId].ownerUserId = posts[pm.postId].authorId


RanThrough(r) ==
  req[r].pc \in {"created", "failed"} /\ req[r].error \notin {ErrWrite, ErrCreate}

\* the two requests differ at most in the Content-Type value of their parts
SameButType(r, q) ==
  /\ req[r].contentType = req[q].contentType
  /\ Len(req[r].sent) = Len(req[q].sent)
  /\ \A k \in DOMAIN req[r].sent :
       [req[r].sent[k] EXCEPT !.ctype = <<>>] = [req[q].sent[k] EXCEPT !.ctype = <<>>]

====
